---------------------------- MODULE Spec2Model ----------------------------
(***************************************************************************)
(* A model of adevice (platform/tools/asuite/adevice): fingerprint diff,   *)
(* per-file status, command composition, command ordering, restart choice  *)
(* and the update loop with its single retry.                              *)
(*                                                                         *)
(* Strings that the code compares byte-wise (adb argument strings, path    *)
(* components) are sequences of one-character strings, ordered by Ascii.   *)
(* A PathBuf is the sequence of its components.                            *)
(***************************************************************************)
EXTENDS Integers, Sequences, FiniteSets, TLC

(***************************************************************************)
(* Bounds of the model.                                                    *)
(***************************************************************************)
\* Largest number of entries in a host or device fingerprint map.
MaxFiles == 2

(***************************************************************************)
(* Strings and paths.                                                      *)
(***************************************************************************)
Ascii ==
    (" " :> 32) @@ ("+" :> 43) @@ ("-" :> 45) @@ ("." :> 46) @@ ("/" :> 47) @@
    ("a" :> 97) @@ ("b" :> 98) @@ ("c" :> 99) @@ ("d" :> 100) @@ ("e" :> 101) @@
    ("f" :> 102) @@ ("g" :> 103) @@ ("h" :> 104) @@ ("i" :> 105) @@ ("j" :> 106) @@
    ("k" :> 107) @@ ("l" :> 108) @@ ("m" :> 109) @@ ("n" :> 110) @@ ("o" :> 111) @@
    ("p" :> 112) @@ ("q" :> 113) @@ ("r" :> 114) @@ ("s" :> 115) @@ ("t" :> 116) @@
    ("u" :> 117) @@ ("v" :> 118) @@ ("w" :> 119) @@ ("x" :> 120) @@ ("y" :> 121) @@
    ("z" :> 122) @@ ("_" :> 95)

\* str::cmp: byte-wise lexicographic order, a proper prefix sorts first.
RECURSIVE StrLess(_, _)
StrLess(a, b) ==
    IF b = <<>> THEN FALSE
    ELSE IF a = <<>> THEN TRUE
    ELSE IF Ascii[Head(a)] # Ascii[Head(b)] THEN Ascii[Head(a)] < Ascii[Head(b)]
    ELSE StrLess(Tail(a), Tail(b))

\* [String]::join(sep)
RECURSIVE Join(_, _)
Join(parts, sep) ==
    IF parts = <<>> THEN <<>>
    ELSE IF Len(parts) = 1 THEN parts[1]
    ELSE parts[1] \o sep \o Join(Tail(parts), sep)

\* PathBuf -> String: the components joined by "/".
path_str(p) == Join(p, <<"/">>)

\* Path::cmp: lexicographic over the components, each compared byte-wise.
RECURSIVE PathLess(_, _)
PathLess(p, q) ==
    IF q = <<>> THEN FALSE
    ELSE IF p = <<>> THEN TRUE
    ELSE IF Head(p) # Head(q) THEN StrLess(Head(p), Head(q))
    ELSE PathLess(Tail(p), Tail(q))

\* Path::starts_with: whole leading components.
starts_with(p, base) ==
    /\ Len(base) <= Len(p)
    /\ SubSeq(p, 1, Len(base)) = base

\* p lies strictly below directory d.
IsDescendant(p, d) == starts_with(p, d) /\ p # d

\* Names used to build the paths of the model.
system == <<"s", "y", "s", "t", "e", "m">>
n_a == <<"a">>
n_ab == <<"a", "-", "b">>
n_d == <<"d">>
n_f == <<"f">>
n_x_apk == <<"x", ".", "a", "p", "k">>

P_a == <<system, n_a>>
P_af == <<system, n_a, n_f>>
P_apk == <<system, n_a, n_x_apk>>
P_ab == <<system, n_ab>>
P_sys == <<system>>
P_f == <<system, n_f>>

(***************************************************************************)
(* fingerprint.rs: FileMetadata, Diffs, diff.                              *)
(***************************************************************************)
FileMetadata(file_type, symlink, digest) ==
    [file_type |-> file_type, symlink |-> symlink, digest |-> digest]

file_metadata(digest) == FileMetadata("File", <<>>, digest)
link_metadata(target) == FileMetadata("Symlink", target, "")
dir_metadata == FileMetadata("Directory", <<>>, "")

\* Metadata values the inputs are drawn from.
MetaU ==
    { file_metadata("d1"), file_metadata("d2"), link_metadata(<<"t">>), dir_metadata }

\* Every map from at most n of the paths to metadata.
Trees(paths, n) ==
    UNION { [S -> MetaU] : S \in { T \in SUBSET paths : Cardinality(T) <= n } }

EmptyMap == <<>>

Diffs(needs, extra, diffs_) ==
    [device_needs |-> needs, device_extra |-> extra, device_diffs |-> diffs_]

DefaultDiffs == Diffs(EmptyMap, EmptyMap, EmptyMap)

\* A mutant of diff: the files that are the same on both sides are reported
\* as different too.
diff_reports_equal(host_files, device_files) ==
    Diffs([p \in DOMAIN host_files \ DOMAIN device_files |-> host_files[p]],
          [p \in DOMAIN device_files \ DOMAIN host_files |-> device_files[p]],
          [p \in DOMAIN host_files \cap DOMAIN device_files |-> host_files[p]])

diff(host_files, device_files) ==
    Diffs([p \in { q \in DOMAIN host_files : q \notin DOMAIN device_files }
              |-> host_files[p]],
          [p \in { q \in DOMAIN device_files : q \notin DOMAIN host_files }
              |-> device_files[p]],
          [p \in { q \in DOMAIN host_files :
                      /\ q \in DOMAIN device_files
                      /\ device_files[q] # host_files[q] }
              |-> host_files[p]])

(***************************************************************************)
(* commands.rs: AdbAction, command_args, compose.                          *)
(***************************************************************************)
w_shell == <<"s", "h", "e", "l", "l">>
w_mkdir == <<"m", "k", "d", "i", "r">>
w_p == <<"-", "p">>
w_push == <<"p", "u", "s", "h">>
w_ln == <<"l", "n">>
w_sf == <<"-", "s", "f">>
w_rm == <<"r", "m">>
w_rf == <<"-", "r", "f">>

\* An AdbCommand: the action, its argument (the host path of a Push, the
\* target of a Symlink, empty otherwise) and the device path it acts on.
AdbCommand(action, arg, file) == [action |-> action, arg |-> arg, file |-> file]

\* The argv handed to adb for an action on a device path.
command_args(action, arg, file_path) ==
    CASE action = "Mkdir" -> <<w_shell, w_mkdir, w_p, path_str(file_path)>>
      [] action = "Push" -> <<w_push, arg, path_str(file_path)>>
      [] action = "Symlink" -> <<w_shell, w_ln, w_sf, arg, path_str(file_path)>>
      [] action = "DeleteFile" -> <<w_shell, w_rm, path_str(file_path)>>
      [] action = "DeleteDir" -> <<w_shell, w_rm, w_rf, path_str(file_path)>>

args(cmd) == command_args(cmd.action, cmd.arg, cmd.file)
is_mkdir(cmd) == cmd.action = "Mkdir"
is_rm(cmd) == cmd.action \in {"DeleteFile", "DeleteDir"}
device_path(cmd) == cmd.file

\* $ANDROID_PRODUCT_OUT of the model.
product_out == << <<"o", "u", "t">> >>

Commands(upserts, deletes) == [upserts |-> upserts, deletes |-> deletes]

upsert_command(file_path, metadata) ==
    CASE metadata.file_type = "File" ->
             AdbCommand("Push", path_str(product_out \o file_path), file_path)
      [] metadata.file_type = "Symlink" ->
             AdbCommand("Symlink", metadata.symlink, file_path)
      [] metadata.file_type = "Directory" ->
             AdbCommand("Mkdir", <<>>, file_path)

delete_command(file_path, metadata) ==
    IF metadata.file_type = "Directory"
    THEN AdbCommand("DeleteDir", <<>>, file_path)
    ELSE AdbCommand("DeleteFile", <<>>, file_path)

\* A mutant of compose: what is extra on the device is removed with rm,
\* whatever its kind.
compose_deletes_files_only(d) ==
    Commands(
        [p \in DOMAIN d.device_needs \cup DOMAIN d.device_diffs |->
            IF p \in DOMAIN d.device_diffs
            THEN upsert_command(p, d.device_diffs[p])
            ELSE upsert_command(p, d.device_needs[p])],
        [p \in DOMAIN d.device_extra |-> AdbCommand("DeleteFile", <<>>, p)])

\* The entries of device_needs are inserted first, those of device_diffs
\* after them.
compose(d) ==
    Commands(
        [p \in DOMAIN d.device_needs \cup DOMAIN d.device_diffs |->
            IF p \in DOMAIN d.device_diffs
            THEN upsert_command(p, d.device_diffs[p])
            ELSE upsert_command(p, d.device_needs[p])],
        [p \in DOMAIN d.device_extra |-> delete_command(p, d.device_extra[p])])

(***************************************************************************)
(* adevice.rs: parents, installed_apk_action, collect_status_per_file,     *)
(* get_update_commands.                                                    *)
(***************************************************************************)
\* Path::ancestors: the path itself, then each parent, down to the empty path.
ancestors(p) == [i \in 1..(Len(p) + 1) |-> SubSeq(p, 1, Len(p) + 1 - i)]

\* Iterator::take_while on a sequence.
RECURSIVE take_while_not_in(_, _)
take_while_not_in(s, stop) ==
    IF s = <<>> \/ Head(s) \in stop THEN <<>>
    ELSE <<Head(s)>> \o take_while_not_in(Tail(s), stop)

Range(s) == { s[i] : i \in DOMAIN s }

\* All path components of file_path up to, not including, a passed partition.
parents(file_path, partitions) == Range(take_while_not_in(ancestors(file_path), partitions))

\* Index of the last "." of a file name, 0 if there is none.
RECURSIVE last_dot(_, _)
last_dot(name, i) ==
    IF i = 0 THEN 0
    ELSE IF name[i] = "." THEN i
    ELSE last_dot(name, i - 1)

NoExtension == <<"/">>

\* Path::extension: what follows the last "." of the file name, if that "."
\* is not the first character of the name.
extension(p) ==
    IF p = <<>> THEN NoExtension
    ELSE LET name == p[Len(p)]
             i == last_dot(name, Len(name))
         IN  IF i <= 1 THEN NoExtension ELSE SubSeq(name, i + 1, Len(name))

ext_apk == <<"a", "p", "k">>

AaptFailed == "aapt2 failed"

\* A mutant of is_metadata_diff: the classifier compares the kind of the two
\* entries only, while diff goes on comparing the whole fingerprint.
is_metadata_diff_kind_only(a, b) == a.file_type # b.file_type

\* Whether two fingerprints differ when permissions are ignored: the kind,
\* the digest and the symlink target are compared.
is_metadata_diff(a, b) ==
    \/ a.file_type # b.file_type
    \/ a.digest # b.digest
    \/ a.symlink # b.symlink

\* is_apk_installed: aapt2 names the package of the host apk (or fails) and
\* the package is looked up in the packages installed on /data.
is_apk_installed(file, aapt2, installed_packages) ==
    IF aapt2[file] = AaptFailed THEN "Err"
    ELSE IF aapt2[file] \in installed_packages THEN "true" ELSE "false"

installed_apk_action(file, aapt2, installed_packages) ==
    IF extension(file) # ext_apk THEN "Push"
    ELSE CASE is_apk_installed(file, aapt2, installed_packages) = "Err" -> "Err"
           [] is_apk_installed(file, aapt2, installed_packages) = "true" -> "ApkInstalled"
           [] OTHER -> "Push"

\* A mutant of push_state: a tracked file that is not on the host needs a
\* build only if it is not on the device either.
push_state_needs_build_only_off_device(f, tracked_set, host, device, aapt2, installed_packages) ==
    LET on_device == f \in DOMAIN device
        on_host == f \in DOMAIN host
        tracked == f \in tracked_set
    IN  IF tracked
        THEN IF on_device /\ on_host
             THEN IF is_metadata_diff(device[f], host[f])
                  THEN installed_apk_action(f, aapt2, installed_packages)
                  ELSE "UpToDate"
             ELSE IF ~on_host
             THEN IF on_device THEN "TrackAndBuildOrClean" ELSE "UntrackOrBuild"
             ELSE IF ~on_device /\ on_host THEN "Push" ELSE "AssertionFailed"
        ELSE IF on_device /\ on_host
             THEN "TrackOrClean"
             ELSE IF on_device /\ ~on_host
             THEN "TrackAndBuildOrClean"
             ELSE IF ~on_device /\ on_host THEN "TrackOrMakeClean" ELSE "AssertionFailed"

\* The PushState of one file; "AssertionFailed" stands for the panic of the
\* two assert! calls.
push_state(f, tracked_set, host, device, aapt2, installed_packages) ==
    LET on_device == f \in DOMAIN device
        on_host == f \in DOMAIN host
        tracked == f \in tracked_set
    IN  IF tracked
        THEN IF on_device /\ on_host
             THEN IF is_metadata_diff(device[f], host[f])
                  THEN installed_apk_action(f, aapt2, installed_packages)
                  ELSE "UpToDate"
             ELSE IF ~on_host
             THEN "UntrackOrBuild"
             ELSE IF ~on_device /\ on_host THEN "Push" ELSE "AssertionFailed"
        ELSE IF on_device /\ on_host
             THEN "TrackOrClean"
             ELSE IF on_device /\ ~on_host
             THEN "TrackAndBuildOrClean"
             ELSE IF ~on_device /\ on_host THEN "TrackOrMakeClean" ELSE "AssertionFailed"

Err(msg) == [ok |-> FALSE, err |-> msg]
Ok(value) == [ok |-> TRUE, value |-> value]

\* A mutant of collect_status_per_file: the parent directories of the files
\* are looked at too, whether or not any of the three sets holds them.
collect_status_with_ancestors(tracked_set, host, device, aapt2, installed_packages) ==
    LET known == DOMAIN host \cup DOMAIN device \cup tracked_set
        all_files == known \cup UNION { Range(ancestors(f)) : f \in known }
        states == [f \in all_files |->
                      push_state(f, tracked_set, host, device, aapt2, installed_packages)]
    IN  IF \E f \in all_files : states[f] = "Err"
        THEN Err("Unable to run aapt2 to get installed packages")
        ELSE Ok(states)

collect_status_per_file(tracked_set, host, device, aapt2, installed_packages) ==
    LET all_files == DOMAIN host \cup DOMAIN device \cup tracked_set
        states == [f \in all_files |->
                      push_state(f, tracked_set, host, device, aapt2, installed_packages)]
    IN  IF \E f \in all_files : states[f] = "Err"
        THEN Err("Unable to run aapt2 to get installed packages")
        ELSE Ok(states)

\* A mutant of the tracked set: the directories above the files are left out.
tracked_set_files_only(ninja_installed_files, partitions) == ninja_installed_files

\* A mutant of the tracked set: the partitions are not added to it.
tracked_set_without_partitions(ninja_installed_files, partitions) ==
    ninja_installed_files
        \cup UNION { parents(p, partitions) : p \in ninja_installed_files }

\* The tracked files, their parent directories below the partitions, and
\* the partitions.
tracked_set_of(ninja_installed_files, partitions) ==
    ninja_installed_files
        \cup UNION { parents(p, partitions) : p \in ninja_installed_files }
        \cup partitions

shadowing_apks_of(status_per_file) ==
    { p \in DOMAIN status_per_file : status_per_file[p] = "ApkInstalled" }

\* A mutant of the filter: the apks installed on /data are kept.
filtered_host_set_keeps_shadowed(host, tracked_set, shadowing_apks) ==
    [p \in { q \in DOMAIN host : q \in tracked_set } |-> host[p]]

\* A mutant of the filter: the untracked host files are kept.
filtered_host_set_keeps_untracked(host, tracked_set, shadowing_apks) ==
    [p \in { q \in DOMAIN host : q \notin shadowing_apks } |-> host[p]]

filtered_host_set_of(host, tracked_set, shadowing_apks) ==
    [p \in { q \in DOMAIN host : q \in tracked_set /\ q \notin shadowing_apks } |-> host[p]]

\* Result<(status_per_file, filtered_host_set, Commands)>: the Commands are
\* what the function returns, the other two are what it printed and diffed.
\* A mutant of get_update_commands: a tracked path that is not built is an
\* error.
get_update_commands_needs_build(device, host, ninja_installed_files, aapt2, installed_packages, partitions) ==
    LET tracked_set == tracked_set_of(ninja_installed_files, partitions)
        status == collect_status_per_file(tracked_set, host, device, aapt2,
                                          installed_packages)
    IN  IF ~status.ok THEN status
        ELSE IF tracked_set \ DOMAIN host # {}
        THEN Err("Please build needed [unbuilt] modules before updating.")
        ELSE LET filtered == filtered_host_set_of(host, tracked_set,
                                                  shadowing_apks_of(status.value))
             IN  Ok([status_per_file |-> status.value,
                     filtered_host_set |-> filtered,
                     commands |-> compose(diff(filtered, device))])

get_update_commands(device, host, ninja_installed_files, aapt2, installed_packages, partitions) ==
    LET tracked_set == tracked_set_of(ninja_installed_files, partitions)
        status == collect_status_per_file(tracked_set, host, device, aapt2,
                                          installed_packages)
    IN  IF ~status.ok THEN status
        ELSE LET filtered == filtered_host_set_of(host, tracked_set,
                                                  shadowing_apks_of(status.value))
             IN  Ok([status_per_file |-> status.value,
                     filtered_host_set |-> filtered,
                     commands |-> compose(diff(filtered, device))])

(***************************************************************************)
(* restart_chooser.rs and commands.rs: RestartChooser, restart_type.       *)
(***************************************************************************)
\* RestartChooser::restart_type: the entry of restart_types, "Unknown" for
\* Option::None.
chooser_restart_type(chooser, installed_file) ==
    IF installed_file \in DOMAIN chooser THEN chooser[installed_file] ELSE "Unknown"

\* A mutant of restart_type: it returns as soon as a soft restart is needed.
RECURSIVE restart_type_returns_early(_, _)
restart_type_returns_early(chooser, installed_file_paths) ==
    IF installed_file_paths = <<>> THEN "None"
    ELSE IF chooser_restart_type(chooser, Head(installed_file_paths)) = "SoftRestart"
    THEN "SoftRestart"
    ELSE IF chooser_restart_type(chooser, Head(installed_file_paths)) = "Reboot"
    THEN "Reboot"
    ELSE restart_type_returns_early(chooser, Tail(installed_file_paths))

\* The loop of restart_type: the two flags after all files were looked at.
RECURSIVE restart_flags(_, _, _)
restart_flags(chooser, installed_file_paths, flags) ==
    IF installed_file_paths = <<>> THEN flags
    ELSE LET rt == chooser_restart_type(chooser, Head(installed_file_paths))
         IN  restart_flags(chooser, Tail(installed_file_paths),
                 [soft_restart_needed |-> flags.soft_restart_needed \/ rt = "SoftRestart",
                  reboot_needed |-> flags.reboot_needed \/ rt = "Reboot"])

restart_type(chooser, installed_file_paths) ==
    LET flags == restart_flags(chooser, installed_file_paths,
                     [soft_restart_needed |-> FALSE, reboot_needed |-> FALSE])
    IN  IF flags.reboot_needed THEN "Reboot"
        ELSE IF flags.soft_restart_needed THEN "SoftRestart"
        ELSE "None"

(***************************************************************************)
(* device.rs: mkdir_comes_first_rm_dfs and the sort of update.             *)
(***************************************************************************)
\* Ord::cmp of two strings.
str_cmp(a, b) ==
    IF a = b THEN "Equal" ELSE IF StrLess(a, b) THEN "Less" ELSE "Greater"

\* Ord::cmp of two paths.
path_cmp(p, q) ==
    IF p = q THEN "Equal" ELSE IF PathLess(p, q) THEN "Less" ELSE "Greater"

\* A mutant of the comparator: mkdir is not put first, all commands but the
\* rm commands are sorted by their arguments.
rm_first_then_by_args(a, b) ==
    LET a_cmd == Join(args(a), <<" ">>)
        b_cmd == Join(args(b), <<" ">>)
    IN  IF is_rm(a) /\ is_rm(b) THEN str_cmp(b_cmd, a_cmd)
        ELSE IF is_rm(a) THEN "Less"
        ELSE IF is_rm(b) THEN "Greater"
        ELSE str_cmp(a_cmd, b_cmd)

mkdir_comes_first_rm_dfs(a, b) ==
    IF ~is_mkdir(a) /\ ~is_mkdir(b)
    THEN LET a_cmd == Join(args(a), <<" ">>)
             b_cmd == Join(args(b), <<" ">>)
         IN  IF is_rm(a) /\ is_rm(b) THEN str_cmp(b_cmd, a_cmd)
             ELSE IF is_rm(a) THEN "Less"
             ELSE IF is_rm(b) THEN "Greater"
             ELSE str_cmp(a_cmd, b_cmd)
    ELSE IF is_mkdir(a) /\ is_mkdir(b) THEN path_cmp(device_path(a), device_path(b))
    ELSE IF is_mkdir(a) THEN "Less"
    ELSE IF is_mkdir(b) THEN "Greater"
    ELSE "Equal"

\* Insert x into the sorted s behind every element that is not greater.
RECURSIVE insert_sorted(_, _)
insert_sorted(x, s) ==
    IF s = <<>> THEN <<x>>
    ELSE IF mkdir_comes_first_rm_dfs(x, Head(s)) = "Less" THEN <<x>> \o s
    ELSE <<Head(s)>> \o insert_sorted(x, Tail(s))

\* Itertools::sorted_by(&mkdir_comes_first_rm_dfs): a stable sort.
RECURSIVE sorted_by(_)
sorted_by(s) ==
    IF s = <<>> THEN <<>>
    ELSE insert_sorted(s[Len(s)], sorted_by(SubSeq(s, 1, Len(s) - 1)))

\* The orders in which a HashMap may hand out the elements of S.
Orders(S) ==
    { o \in [1..Cardinality(S) -> S] : \A x \in S : \E k \in DOMAIN o : o[k] = x }

(***************************************************************************)
(* State.                                                                  *)
(***************************************************************************)
VARIABLES
    pc,                     \* position of the run
    host_tree,              \* HashMap<PathBuf, FileMetadata> of the host
    device_tree,            \* HashMap<PathBuf, FileMetadata> of the device
    diffs,                  \* result of fingerprint::diff
    ninja_installed_files,  \* the tracked files Host::tracked_files returns
    partitions,             \* the partitions that are synced
    aapt2,                  \* host apk -> its package name, or AaptFailed
    installed_packages,     \* Device::get_installed_apks
    update_commands,        \* result of get_update_commands
    adb_commands,           \* device::update: the commands to run, by device path
    restart_chooser,        \* RestartChooser.restart_types
    should_wait,            \* cli::Wait
    upc,                    \* position inside device::update
    sorted_cmds,            \* device::update: the commands in the order they are sent
    next_cmd,               \* device::update: index of the next command to send
    installed_file_paths,   \* restart_type: the files it is asked about
    rtype,                  \* the RestartType restart_type returned
    device_log,             \* every call made on the Device, in order
    update_result,          \* what device::update returned
    cli,                    \* cli::Cli: the command and the global options
    stdin_line,             \* what the user answers to the confirmation prompt
    retry,                  \* adevice: the loop variable of the update loop
    update_attempts,        \* how many times adevice has called device::update
    adevice_result,         \* what adevice returned
    module_info,            \* module-info.json: the modules RestartChooser::new reads
    commands,               \* the Commands compose returned
    wait_pc,                \* position inside RealDevice::wait
    wait_calls,             \* the calls of wait_for_adb_with_timeout, in order
    wait_result,            \* what RealDevice::wait returned
    proc_pc,                \* position inside run_process_with_retry_until_timeout
    timeout,                \* its timeout, in ticks
    elapsed,                \* start_time.elapsed(), in ticks
    retry_count,            \* its retry_count
    timeout_arg,            \* the seconds handed to the timeout binary
    spawned,                \* how many times the command was started
    process_result,         \* what run_process_with_retry_until_timeout returned
    android_serial,         \* RealDevice.android_serial
    adb_pc,                 \* position inside RealDevice::run_raw_adb_command
    adb_cmd,                \* the args the caller hands to it
    adb_output,             \* what Command::output returned for adb
    adb_result,             \* what run_raw_adb_command returned
    config,                 \* tracking::Config in memory: base and modules
    config_file,            \* ~/.config/asuite/adevice-tracking.json
    cache_file,             \* adevice-ninja-deps-<product>.cache: mtime and lines
    ninja_file,             \* combined-<product>.ninja: mtime and build graph
    clock,                  \* the time of the file system
    config_result,          \* what the last track, untrack or trackbase returned
    tracked_files_result,   \* what the last Config::tracked_files returned
    last_op,                \* module name -> the last operation that named it
    is_complete,            \* progress: PROGRESS.is_complete
    message,                \* progress: PROGRESS.message
    printers,               \* progress: position of every thread start() spawned
    main_pc                 \* progress: position of the thread that calls start and stop

tree_vars == <<host_tree, device_tree, diffs>>
status_vars ==
    <<ninja_installed_files, partitions, aapt2, installed_packages, update_commands>>
update_inputs == <<adb_commands, restart_chooser, should_wait>>
update_vars ==
    <<adb_commands, restart_chooser, should_wait, upc, sorted_cmds, next_cmd, rtype,
      device_log, update_result>>

adevice_vars == <<cli, stdin_line, retry, update_attempts, adevice_result>>

process_vars ==
    <<proc_pc, timeout, elapsed, retry_count, timeout_arg, spawned, process_result>>

wait_vars == <<wait_pc, wait_calls, wait_result, process_vars>>

adb_vars == <<android_serial, adb_pc, adb_cmd, adb_output, adb_result>>

tracking_vars ==
    <<config, config_file, cache_file, ninja_file, clock, config_result,
      tracked_files_result, last_op>>

progress_vars == <<is_complete, message, printers, main_pc>>

aux_vars == <<adb_vars, tracking_vars, progress_vars>>

vars ==
    <<pc, tree_vars, status_vars, update_vars, installed_file_paths, adevice_vars,
      module_info, commands, wait_vars, aux_vars>>

inputs == <<host_tree, device_tree, ninja_installed_files, partitions, aapt2,
            installed_packages>>

NotCalled == [ok |-> FALSE, err |-> "not called"]

\* compose has not been called.
NoCommands == Commands(EmptyMap, EmptyMap)

\* The values of the variables a specification does not use.
TreesIdle == host_tree = EmptyMap /\ device_tree = EmptyMap /\ diffs = DefaultDiffs

StatusIdle ==
    /\ ninja_installed_files = {}
    /\ partitions = {}
    /\ aapt2 = EmptyMap
    /\ installed_packages = {}
    /\ update_commands = NotCalled

UpdateNotStarted ==
    /\ sorted_cmds = <<>>
    /\ next_cmd = 0
    /\ rtype = "not chosen"
    /\ device_log = <<>>
    /\ update_result = NotCalled

UpdateIdle ==
    /\ adb_commands = EmptyMap
    /\ restart_chooser = EmptyMap
    /\ should_wait = "No"
    /\ upc = "idle"
    /\ UpdateNotStarted

\* Option<Vec<String>> of --partitions
NoPartitions == [some |-> FALSE, value |-> {}]
SomePartitions(S) == [some |-> TRUE, value |-> S]

NoCli ==
    [command |-> "none", force |-> FALSE, max_allowed_changes |-> 0, nowait |-> FALSE,
     partitions |-> NoPartitions]

AdeviceIdle ==
    /\ cli = NoCli
    /\ stdin_line = ""
    /\ retry = 0
    /\ update_attempts = 0
    /\ adevice_result = NotCalled

ProcessIdle ==
    /\ proc_pc = "idle"
    /\ timeout = 0
    /\ elapsed = 0
    /\ retry_count = 0
    /\ timeout_arg = 0
    /\ spawned = 0
    /\ process_result = NotCalled

WaitIdle ==
    /\ wait_pc = "idle"
    /\ wait_calls = <<>>
    /\ wait_result = NotCalled
    /\ ProcessIdle

NoSerial == [none |-> TRUE]
SomeSerial(s) == [some |-> s]
NoOutput == [none |-> "no output"]

\* No adb process is started by hand.
AdbIdle ==
    /\ android_serial = NoSerial
    /\ adb_pc = "idle"
    /\ adb_cmd = <<>>
    /\ adb_output = NoOutput
    /\ adb_result = NotCalled

NoFile == [exists |-> FALSE]

Config(base, modules) == [base |-> base, modules |-> modules]

\* Config::load_or_default without a config file.
DefaultConfig == Config("droid", <<>>)

\* The tracking config is not used.
TrackingIdle ==
    /\ config = DefaultConfig
    /\ config_file = NoFile
    /\ cache_file = NoFile
    /\ ninja_file = NoFile
    /\ clock = 0
    /\ config_result = NotCalled
    /\ tracked_files_result = NotCalled
    /\ last_op = <<>>

\* The progress reporter is not used.
ProgressIdle ==
    /\ is_complete = FALSE
    /\ message = ""
    /\ printers = <<>>
    /\ main_pc = "idle"

AuxIdle == AdbIdle /\ TrackingIdle /\ ProgressIdle

(***************************************************************************)
(* SpecDiff: fingerprint::diff applied to any two fingerprint maps.        *)
(***************************************************************************)
DiffPaths == { P_a, P_af, P_ab }

InitDiff ==
    /\ pc = "diff"
    /\ host_tree \in Trees(DiffPaths, MaxFiles)
    /\ device_tree \in Trees(DiffPaths, MaxFiles)
    /\ diffs = DefaultDiffs
    /\ StatusIdle
    /\ UpdateIdle
    /\ installed_file_paths = <<>>
    /\ AdeviceIdle
    /\ module_info = {}
    /\ commands = NoCommands
    /\ WaitIdle
    /\ AuxIdle

CallDiff ==
    /\ pc = "diff"
    /\ diffs' = diff(host_tree, device_tree)
    /\ pc' = "diffed"
    /\ UNCHANGED <<host_tree, device_tree, status_vars, update_vars, installed_file_paths, module_info, commands, wait_vars,
                   adevice_vars, aux_vars>>

\* commands::compose(&diffs, &product_out)
CallCompose ==
    /\ pc = "diffed"
    /\ commands' = compose(diffs)
    /\ pc' = "composed"
    /\ UNCHANGED <<tree_vars, status_vars, update_vars, installed_file_paths, adevice_vars,
                   module_info, wait_vars, aux_vars>>

NextDiff == CallDiff \/ CallCompose

SpecDiff == InitDiff /\ [][NextDiff]_vars

\* C1: diff puts each path of H \cup D in exactly one of four outcomes:
\* device_needs iff on host only, device_diffs iff on both with different
\* metadata, device_extra iff on device only, none of the three iff on both
\* with equal metadata; the three key sets are pairwise disjoint and hold no
\* path outside H \cup D.
C1_DiffPartition ==
    pc = "diffed" =>
        LET H == DOMAIN host_tree
            D == DOMAIN device_tree
            needs == DOMAIN diffs.device_needs
            differs == DOMAIN diffs.device_diffs
            extra == DOMAIN diffs.device_extra
        IN  /\ needs = H \ D
            /\ differs = { p \in H \cap D : host_tree[p] # device_tree[p] }
            /\ extra = D \ H
            /\ \A p \in H \cap D :
                  host_tree[p] = device_tree[p] => p \notin needs \cup differs \cup extra
            /\ needs \cap differs = {}
            /\ needs \cap extra = {}
            /\ differs \cap extra = {}
            /\ needs \cup differs \cup extra \subseteq H \cup D

\* A run where all four outcomes occur at once is not possible with MaxFiles
\* entries on a side, so the witness shows three of them: a path the device
\* needs, a path that differs and a path that is extra.
C1_Witness ==
    /\ pc = "diffed"
    /\ DOMAIN diffs.device_needs # {}
    /\ DOMAIN diffs.device_diffs # {}
    /\ DOMAIN diffs.device_extra # {}

\* C23: for every fingerprint map H, diff(H, H) is three empty maps; the
\* diff of two empty maps is the default Diffs.
C23_DiffOfEqualMaps ==
    (pc = "diffed" /\ host_tree = device_tree) => diffs = DefaultDiffs

\* The diff of a map of MaxFiles entries with itself, and of two empty maps.
C23_Witness ==
    /\ pc = "diffed"
    /\ host_tree = device_tree
    /\ Cardinality(DOMAIN host_tree) = MaxFiles
    /\ diffs = DefaultDiffs

\* The command compose must give for the host entry of path p.
ExpectedUpsert(p) ==
    CASE host_tree[p].file_type = "File" ->
             <<w_push, path_str(product_out \o p), path_str(p)>>
      [] host_tree[p].file_type = "Symlink" ->
             <<w_shell, w_ln, w_sf, host_tree[p].symlink, path_str(p)>>
      [] host_tree[p].file_type = "Directory" ->
             <<w_shell, w_mkdir, w_p, path_str(p)>>

\* The command compose must give for the device entry of path p.
ExpectedDelete(p) ==
    IF device_tree[p].file_type = "Directory"
    THEN <<w_shell, w_rm, w_rf, path_str(p)>>
    ELSE <<w_shell, w_rm, path_str(p)>>

\* C26: compose gives one upsert for each path of device_needs and
\* device_diffs, a push of product_out/path for a host file, ln -sf of the
\* host entry's target for a symlink, mkdir for a directory; one delete for
\* each path of device_extra, rm for a file or symlink, rm -rf for a
\* directory; nothing else, and no path has both an upsert and a delete.
C26_ComposeOnePerEntry ==
    pc = "composed" =>
        /\ DOMAIN commands.upserts = DOMAIN diffs.device_needs \cup DOMAIN diffs.device_diffs
        /\ DOMAIN commands.deletes = DOMAIN diffs.device_extra
        /\ \A p \in DOMAIN commands.upserts :
              /\ args(commands.upserts[p]) = ExpectedUpsert(p)
              /\ device_path(commands.upserts[p]) = p
        /\ \A p \in DOMAIN commands.deletes :
              /\ args(commands.deletes[p]) = ExpectedDelete(p)
              /\ device_path(commands.deletes[p]) = p
        /\ DOMAIN commands.upserts \cap DOMAIN commands.deletes = {}

\* A directory to remove together with a path to push or link.
C26_Witness ==
    /\ pc = "composed"
    /\ \E p \in DOMAIN commands.deletes : commands.deletes[p].action = "DeleteDir"
    /\ \E p \in DOMAIN commands.upserts : commands.upserts[p].action \in { "Push", "Symlink" }

(***************************************************************************)
(* SpecStatus: get_update_commands applied to a tracked-file list, a host  *)
(* tree, a device tree and the packages installed on /data.                *)
(***************************************************************************)
StatusPaths == { P_sys, P_a, P_apk, P_f }

\* The kinds of entry each path of the status inputs may be.
StatusMeta(p) ==
    CASE p = P_apk -> { file_metadata("d1"), file_metadata("d2") }
      [] p = P_f -> { file_metadata("d1"), file_metadata("d2"), link_metadata(<<"t">>) }
      [] OTHER -> { dir_metadata }

StatusTrees ==
    { t \in UNION { [S -> MetaU] : S \in SUBSET StatusPaths } :
        \A p \in DOMAIN t : t[p] \in StatusMeta(p) }

InitStatus ==
    /\ pc = "get_update_commands"
    /\ host_tree \in StatusTrees
    /\ device_tree \in StatusTrees
    /\ ninja_installed_files \in SUBSET { P_apk, P_f }
    /\ partitions \in { {}, { P_sys } }
    /\ aapt2 \in [{ P_apk } -> { "com.foo", AaptFailed }]
    /\ installed_packages \in { {}, { "com.foo" } }
    /\ diffs = DefaultDiffs
    /\ update_commands = NotCalled
    /\ UpdateIdle
    /\ installed_file_paths = <<>>
    /\ AdeviceIdle
    /\ module_info = {}
    /\ commands = NoCommands
    /\ WaitIdle
    /\ AuxIdle

CallGetUpdateCommands ==
    /\ pc = "get_update_commands"
    /\ update_commands' = get_update_commands(device_tree, host_tree, ninja_installed_files,
                                              aapt2, installed_packages, partitions)
    /\ pc' = "got_update_commands"
    /\ UNCHANGED <<inputs, diffs, update_vars, installed_file_paths, module_info, commands, wait_vars, adevice_vars,
                   aux_vars>>

NextStatus == CallGetUpdateCommands

SpecStatus == InitStatus /\ [][NextStatus]_vars

tracked_set == tracked_set_of(ninja_installed_files, partitions)
GotCommands == pc = "got_update_commands" /\ update_commands.ok
status_per_file == update_commands.value.status_per_file
upserts == update_commands.value.commands.upserts
deletes == update_commands.value.commands.deletes

\* The package of the host apk f is installed on /data.
ApkIsInstalled(f) ==
    /\ extension(f) = ext_apk
    /\ f \in DOMAIN aapt2
    /\ aapt2[f] \in installed_packages

\* The state the claim gives a path from (tracked, on_host, on_device,
\* metadata equality, apk-installed).
C2_Expected(f) ==
    LET tracked == f \in tracked_set
        on_host == f \in DOMAIN host_tree
        on_device == f \in DOMAIN device_tree
    IN  CASE tracked /\ on_host /\ on_device /\ host_tree[f] = device_tree[f] -> "UpToDate"
          [] tracked /\ on_host /\ on_device /\ host_tree[f] # device_tree[f] ->
                 IF ApkIsInstalled(f) THEN "ApkInstalled" ELSE "Push"
          [] tracked /\ ~on_host -> "UntrackOrBuild"
          [] tracked /\ on_host /\ ~on_device -> "Push"
          [] ~tracked /\ on_host /\ on_device -> "TrackOrClean"
          [] ~tracked /\ ~on_host /\ on_device -> "TrackAndBuildOrClean"
          [] ~tracked /\ on_host /\ ~on_device -> "TrackOrMakeClean"

\* C2: collect_status_per_file gives every path of tracked_set \cup host keys
\* \cup device keys exactly the PushState the table of the claim names, and
\* gives no state to any other path.
C2_StatusTable ==
    GotCommands =>
        /\ DOMAIN status_per_file = tracked_set \cup DOMAIN host_tree \cup DOMAIN device_tree
        /\ \A f \in DOMAIN status_per_file : status_per_file[f] = C2_Expected(f)

C2_Witness ==
    /\ GotCommands
    /\ \E f, g \in DOMAIN status_per_file :
          /\ status_per_file[f] = "ApkInstalled"
          /\ status_per_file[g] = "UntrackOrBuild" /\ g \in DOMAIN device_tree

\* C7: a tracked apk that differs between host and device and whose package
\* is installed on /data is classified ApkInstalled, is not in the filtered
\* host set and has no upsert command.
C7_ShadowedApkNotPushed ==
    GotCommands =>
        \A f \in DOMAIN host_tree \cap DOMAIN device_tree :
            (/\ f \in tracked_set
             /\ host_tree[f] # device_tree[f]
             /\ ApkIsInstalled(f))
            => /\ status_per_file[f] = "ApkInstalled"
               /\ f \notin DOMAIN update_commands.value.filtered_host_set
               /\ f \notin DOMAIN upserts

C7_Witness ==
    /\ GotCommands
    /\ P_apk \in tracked_set
    /\ P_apk \in DOMAIN host_tree \cap DOMAIN device_tree
    /\ host_tree[P_apk] # device_tree[P_apk]
    /\ ApkIsInstalled(P_apk)
    /\ DOMAIN upserts # {}

\* C8: every key of Commands.upserts is in the tracked set and in the host
\* tree, so an untracked host file is never pushed, and empty inputs give no
\* upsert.
C8_UpsertsTrackedAndOnHost ==
    GotCommands =>
        /\ DOMAIN upserts \subseteq tracked_set \cap DOMAIN host_tree
        /\ (ninja_installed_files = {} /\ DOMAIN host_tree = {} /\ DOMAIN device_tree = {}
               => DOMAIN upserts = {})

\* An untracked host file that is on the device and one that is not, in a run
\* that does push a tracked file.
C8_Witness ==
    /\ GotCommands
    /\ DOMAIN upserts # {}
    /\ \E f, g \in DOMAIN host_tree :
          /\ f \notin tracked_set /\ f \in DOMAIN device_tree
          /\ g \notin tracked_set /\ g \notin DOMAIN device_tree

\* C24: collect_status_per_file looks at exactly the union of the tracked
\* set, the host tree and the device tree, so no file it looks at is
\* untracked and on neither side, and none of the two assertions fails.
C24_NoAssertionFails ==
    GotCommands =>
        /\ DOMAIN status_per_file = tracked_set \cup DOMAIN host_tree \cup DOMAIN device_tree
        /\ \A f \in DOMAIN status_per_file :
              /\ f \in tracked_set \/ f \in DOMAIN host_tree \/ f \in DOMAIN device_tree
              /\ status_per_file[f] # "AssertionFailed"

\* Both branches that end in an assertion are taken: a tracked file that is
\* only on the host and an untracked file that is only on the host.
C24_Witness ==
    /\ GotCommands
    /\ \E f, g \in DOMAIN status_per_file :
          /\ status_per_file[f] = "Push" /\ f \notin DOMAIN device_tree
          /\ status_per_file[g] = "TrackOrMakeClean"

(***************************************************************************)
(* device.rs: update and prep_for_push, one action per call on the Device. *)
(* A call on the Device succeeds or fails; a failure carries its message.  *)
(***************************************************************************)
ReadOnlyFs == "Read-only file system"
OtherError == "No space left on device"
DeviceResults == { "Ok", ReadOnlyFs, OtherError }

DeviceCall(op, arg, result) == [op |-> op, arg |-> arg, result |-> result]

\* The call is made and logged.
Log(op, arg, result) == device_log' = Append(device_log, DeviceCall(op, arg, result))

\* device::update returns.
Return(result) == upc' = "returned" /\ update_result' = result

ResultOf(r) == IF r = "Ok" THEN Ok("()") ELSE Err(r)

\* if adb_commands.is_empty() { return Ok(()) }, else the first call of
\* prep_for_push: exec-out stop
PrepStop ==
    /\ upc = "call"
    /\ IF adb_commands = EmptyMap
       THEN Return(Ok("()")) /\ UNCHANGED device_log
       ELSE \E r \in DeviceResults :
              /\ Log("run_raw_adb_command", "exec-out stop", r)
              /\ IF r = "Ok"
                 THEN upc' = "prep_remount" /\ UNCHANGED update_result
                 ELSE Return(Err(r))
    /\ UNCHANGED <<pc, tree_vars, status_vars, update_inputs, sorted_cmds, next_cmd, rtype,
                   installed_file_paths, module_info, commands, wait_vars, adevice_vars, aux_vars>>

\* A mutant of prep_for_push: sys.boot_completed is never cleared.
PrepRemountOnly ==
    /\ upc = "prep_remount"
    /\ \E r \in DeviceResults :
          /\ Log("run_raw_adb_command", "remount", r)
          /\ IF r = "Ok"
             THEN upc' = "sort" /\ UNCHANGED update_result
             ELSE Return(Err(r))
    /\ UNCHANGED <<pc, tree_vars, status_vars, update_inputs, sorted_cmds, next_cmd, rtype,
                   installed_file_paths, module_info, commands, wait_vars, adevice_vars, aux_vars>>

\* prep_for_push: remount
PrepRemount ==
    /\ upc = "prep_remount"
    /\ \E r \in DeviceResults :
          /\ Log("run_raw_adb_command", "remount", r)
          /\ IF r = "Ok"
             THEN /\ upc' = IF should_wait = "Yes" THEN "prep_setprop" ELSE "sort"
                  /\ UNCHANGED update_result
             ELSE Return(Err(r))
    /\ UNCHANGED <<pc, tree_vars, status_vars, update_inputs, sorted_cmds, next_cmd, rtype,
                   installed_file_paths, module_info, commands, wait_vars, adevice_vars, aux_vars>>

\* prep_for_push: exec-out setprop sys.boot_completed ""
PrepSetprop ==
    /\ upc = "prep_setprop"
    /\ \E r \in DeviceResults :
          /\ Log("run_raw_adb_command", "exec-out setprop sys.boot_completed", r)
          /\ IF r = "Ok"
             THEN upc' = "sort" /\ UNCHANGED update_result
             ELSE Return(Err(r))
    /\ UNCHANGED <<pc, tree_vars, status_vars, update_inputs, sorted_cmds, next_cmd, rtype,
                   installed_file_paths, module_info, commands, wait_vars, adevice_vars, aux_vars>>

\* adb_commands.values().cloned().sorted_by(&mkdir_comes_first_rm_dfs): the
\* values come out of the HashMap in any order.
SortCommands ==
    /\ upc = "sort"
    /\ \E o \in Orders({ adb_commands[p] : p \in DOMAIN adb_commands }) :
          sorted_cmds' = sorted_by(o)
    /\ next_cmd' = 1
    /\ upc' = "run"
    /\ UNCHANGED <<pc, tree_vars, status_vars, update_inputs, rtype, device_log,
                   update_result, installed_file_paths, module_info, commands, wait_vars, adevice_vars,
                   aux_vars>>

\* A mutant of the loop over the commands: the result of run_adb_command is
\* dropped and the next command is sent.
RunAdbCommandIgnoringFailure ==
    /\ upc = "run"
    /\ next_cmd <= Len(sorted_cmds)
    /\ \E r \in DeviceResults :
          /\ Log("run_adb_command", sorted_cmds[next_cmd], r)
          /\ next_cmd' = next_cmd + 1
          /\ UNCHANGED <<upc, update_result>>
    /\ UNCHANGED <<pc, tree_vars, status_vars, update_inputs, sorted_cmds, rtype,
                   installed_file_paths, module_info, commands, wait_vars, adevice_vars, aux_vars>>

\* device.run_adb_command(&command)?
RunAdbCommand ==
    /\ upc = "run"
    /\ next_cmd <= Len(sorted_cmds)
    /\ \E r \in DeviceResults :
          /\ Log("run_adb_command", sorted_cmds[next_cmd], r)
          /\ IF r = "Ok"
             THEN /\ next_cmd' = next_cmd + 1
                  /\ UNCHANGED <<upc, update_result>>
             ELSE /\ Return(Err(r))
                  /\ UNCHANGED next_cmd
    /\ UNCHANGED <<pc, tree_vars, status_vars, update_inputs, sorted_cmds, rtype,
                   installed_file_paths, module_info, commands, wait_vars, adevice_vars, aux_vars>>

\* let rtype = restart_type(restart_chooser, &installed_files), where
\* installed_files are the keys of adb_commands in the order of the HashMap.
ChooseRestart ==
    /\ upc = "run"
    /\ next_cmd > Len(sorted_cmds)
    /\ \E o \in Orders(DOMAIN adb_commands) :
          rtype' = restart_type(restart_chooser, o)
    /\ IF rtype' = "None"
       THEN Return(Ok("()"))
       ELSE upc' = "restart" /\ UNCHANGED update_result
    /\ UNCHANGED <<pc, tree_vars, status_vars, update_inputs, sorted_cmds, next_cmd,
                   device_log, installed_file_paths, module_info, commands, wait_vars, adevice_vars,
                   aux_vars>>

\* A mutant of the restart step: the result of the restart action is dropped,
\* so update goes on to wait after a restart that failed.
RestartIgnoringFailure ==
    /\ upc = "restart"
    /\ \E r \in DeviceResults :
          /\ Log(IF rtype = "Reboot" THEN "reboot" ELSE "soft_restart", "", r)
          /\ IF should_wait = "Yes" THEN upc' = "wait" /\ UNCHANGED update_result
             ELSE Return(Ok("()"))
    /\ UNCHANGED <<pc, tree_vars, status_vars, update_inputs, sorted_cmds, next_cmd, rtype,
                   installed_file_paths, module_info, commands, wait_vars, adevice_vars, aux_vars>>

\* device.reboot() or device.soft_restart(), followed by `?`
Restart ==
    /\ upc = "restart"
    /\ \E r \in DeviceResults :
          /\ Log(IF rtype = "Reboot" THEN "reboot" ELSE "soft_restart", "", r)
          /\ IF r # "Ok" THEN Return(Err(r))
             ELSE IF should_wait = "Yes" THEN upc' = "wait" /\ UNCHANGED update_result
             ELSE Return(Ok("()"))
    /\ UNCHANGED <<pc, tree_vars, status_vars, update_inputs, sorted_cmds, next_cmd, rtype,
                   installed_file_paths, module_info, commands, wait_vars, adevice_vars, aux_vars>>

\* device.wait(profiler)?
Wait ==
    /\ upc = "wait"
    /\ \E r \in DeviceResults :
          /\ Log("wait", "", r)
          /\ Return(ResultOf(r))
    /\ UNCHANGED <<pc, tree_vars, status_vars, update_inputs, sorted_cmds, next_cmd, rtype,
                   installed_file_paths, module_info, commands, wait_vars, adevice_vars, aux_vars>>

Update ==
    \/ PrepStop
    \/ PrepRemount
    \/ PrepSetprop
    \/ SortCommands
    \/ RunAdbCommand
    \/ ChooseRestart
    \/ Restart
    \/ Wait

(***************************************************************************)
(* SpecUpdate: device::update called with any map of commands, as the      *)
(* partial program tests call it.                                          *)
(***************************************************************************)
\* Largest number of commands handed to device::update.
MaxCmds == 4

P_ad == <<system, n_a, n_d>>
UpdatePaths == { P_a, P_af, P_ad, P_ab }

\* The commands there can be for a device path.
CommandsFor(p) ==
    { AdbCommand("Mkdir", <<>>, p),
      AdbCommand("Push", path_str(product_out \o p), p),
      AdbCommand("Symlink", <<"t">>, p),
      AdbCommand("DeleteFile", <<>>, p),
      AdbCommand("DeleteDir", <<>>, p) }

AllCommands == UNION { CommandsFor(p) : p \in UpdatePaths }

CommandMaps ==
    { m \in UNION { [S -> AllCommands] :
                       S \in { T \in SUBSET UpdatePaths : Cardinality(T) <= MaxCmds } } :
        \A p \in DOMAIN m : m[p].file = p }

\* The restart types a chooser may hold: nothing known, or one answer for
\* every path.
Choosers ==
    { EmptyMap, [p \in UpdatePaths |-> "SoftRestart"], [p \in UpdatePaths |-> "Reboot"] }

InitUpdate ==
    /\ pc = "test"
    /\ TreesIdle
    /\ StatusIdle
    /\ adb_commands \in CommandMaps
    /\ restart_chooser \in Choosers
    /\ should_wait \in { "Yes", "No" }
    /\ upc = "call"
    /\ UpdateNotStarted
    /\ installed_file_paths = <<>>
    /\ AdeviceIdle
    /\ module_info = {}
    /\ commands = NoCommands
    /\ WaitIdle
    /\ AuxIdle

NextUpdate == Update

SpecUpdate == InitUpdate /\ [][NextUpdate]_vars

\* The commands device::update has sent with run_adb_command, in order.
IsAdbCommand(call) == call.op = "run_adb_command"
sent == SelectSeq(device_log, IsAdbCommand)

\* How many times a call was made on the Device.
Calls(op) == Cardinality({ k \in DOMAIN device_log : device_log[k].op = op })

(***************************************************************************)
(* SpecDeletes: device::update called with delete commands only, for device *)
(* paths under system and under a partition named +d, as --partitions may  *)
(* name one.                                                               *)
(***************************************************************************)
plus_d == <<"+", "d">>
n_x == <<"x">>
P_plus_d == <<plus_d>>
P_plus_dx == <<plus_d, n_x>>
DeletePaths == { P_a, P_af, P_ad, P_plus_d, P_plus_dx }

DeleteCommandsFor(p) ==
    { AdbCommand("DeleteFile", <<>>, p), AdbCommand("DeleteDir", <<>>, p) }

DeleteMaps ==
    { m \in UNION { [S -> UNION { DeleteCommandsFor(p) : p \in DeletePaths }] :
                       S \in { T \in SUBSET DeletePaths : Cardinality(T) <= MaxCmds } } :
        \A p \in DOMAIN m : m[p].file = p }

InitDeletes ==
    /\ pc = "test"
    /\ TreesIdle
    /\ StatusIdle
    /\ adb_commands \in DeleteMaps
    /\ restart_chooser \in { EmptyMap, [p \in DeletePaths |-> "Reboot"] }
    /\ should_wait \in { "Yes", "No" }
    /\ upc = "call"
    /\ UpdateNotStarted
    /\ installed_file_paths = <<>>
    /\ AdeviceIdle
    /\ module_info = {}
    /\ commands = NoCommands
    /\ WaitIdle
    /\ AuxIdle

NextDeletes == Update

SpecDeletes == InitDeletes /\ [][NextDeletes]_vars

\* C3: of the delete commands handed to update, the one of a directory is
\* behind the delete commands of everything below that directory in the
\* sorted sequence, and it is sent only after them.
C3_DeleteChildrenFirst ==
    /\ \A i, j \in DOMAIN sorted_cmds :
          (/\ is_rm(sorted_cmds[i])
           /\ sorted_cmds[j].action = "DeleteDir"
           /\ IsDescendant(sorted_cmds[i].file, sorted_cmds[j].file))
          => i < j
    /\ \A j \in DOMAIN sent :
          sent[j].arg.action = "DeleteDir" =>
              \A p \in DOMAIN adb_commands :
                  (is_rm(adb_commands[p]) /\ IsDescendant(p, sent[j].arg.file))
                  => \E i \in 1..(j - 1) : sent[i].arg = adb_commands[p]

\* 1 for Mkdir, 2 for the delete commands, 3 for Push and Symlink.
Phase(cmd) == IF is_mkdir(cmd) THEN 1 ELSE IF is_rm(cmd) THEN 2 ELSE 3

\* C4: the commands are sent in one order: every Mkdir before every delete,
\* every delete before every Push and Symlink, the Mkdir of a directory before
\* the Mkdir of what is below it; a command is sent once, and only after
\* every command sent before it has returned Ok.
C4_SendOrder ==
    /\ \A i, j \in DOMAIN sent :
          i < j =>
              /\ Phase(sent[i].arg) <= Phase(sent[j].arg)
              /\ sent[i].arg # sent[j].arg
              /\ sent[i].result = "Ok"
              /\ (is_mkdir(sent[i].arg) /\ is_mkdir(sent[j].arg)
                     => ~IsDescendant(sent[i].arg.file, sent[j].arg.file))
    /\ \A j \in DOMAIN sent : \E p \in DOMAIN adb_commands : sent[j].arg = adb_commands[p]

C4_Witness ==
    /\ Len(sent) = 4
    /\ sent[1].arg = AdbCommand("Mkdir", <<>>, P_a)
    /\ sent[2].arg = AdbCommand("Mkdir", <<>>, P_ad)
    /\ is_rm(sent[3].arg)
    /\ sent[4].arg.action = "Push"

\* C10 as claimed: once update has returned, wait was called exactly once if
\* the decision is SoftRestart or Reboot and should_wait is Yes, and was not
\* called if the decision is None or should_wait is No.
C10_WaitOnceWhenRestartChosen ==
    upc = "returned" =>
        /\ (rtype \in { "SoftRestart", "Reboot" } /\ should_wait = "Yes"
               => Calls("wait") = 1)
        /\ (rtype = "None" \/ should_wait = "No" => Calls("wait") = 0)

RestartIssued(k) == device_log[k].op \in { "reboot", "soft_restart" }

\* C10 amended: wait is called exactly once, as the call right after the
\* restart action, if the decision is SoftRestart or Reboot, the restart
\* action returned Ok and should_wait is Yes; it is not called if the
\* decision is None, if should_wait is No or if the restart action failed.
C10_WaitOnceAfterRestartSucceeded ==
    /\ \A k \in DOMAIN device_log :
          device_log[k].op = "wait" =>
              /\ k > 1
              /\ RestartIssued(k - 1)
              /\ device_log[k - 1].result = "Ok"
              /\ rtype \in { "SoftRestart", "Reboot" }
              /\ should_wait = "Yes"
    /\ Calls("wait") <= 1
    /\ upc = "returned" =>
          /\ ((/\ should_wait = "Yes"
               /\ \E k \in DOMAIN device_log :
                     RestartIssued(k) /\ device_log[k].result = "Ok")
                 => Calls("wait") = 1)
          /\ (rtype \in { "None", "not chosen" } \/ should_wait = "No"
                 => Calls("wait") = 0)
          /\ (rtype = "Reboot" <=> Calls("reboot") = 1)
          /\ (rtype = "SoftRestart" <=> Calls("soft_restart") = 1)

C10_Witness ==
    /\ upc = "returned"
    /\ update_result.ok
    /\ rtype = "SoftRestart"
    /\ should_wait = "Yes"
    /\ Calls("wait") = 1

(***************************************************************************)
(* SpecRestart: commands::restart_type applied to any list of files and    *)
(* any chooser.                                                            *)
(***************************************************************************)
\* Longest list of files handed to restart_type.
MaxRestartFiles == 3

RestartPaths == { P_a, P_af, P_ab }

FileLists == UNION { [1..n -> RestartPaths] : n \in 0..MaxRestartFiles }

RestartTypes == { "Reboot", "SoftRestart", "None" }

InitRestart ==
    /\ pc = "restart_type"
    /\ TreesIdle
    /\ StatusIdle
    /\ adb_commands = EmptyMap
    /\ should_wait = "No"
    /\ upc = "idle"
    /\ UpdateNotStarted
    /\ AdeviceIdle
    /\ installed_file_paths \in FileLists
    /\ restart_chooser \in UNION { [S -> RestartTypes] : S \in SUBSET RestartPaths }
    /\ module_info = {}
    /\ commands = NoCommands
    /\ WaitIdle
    /\ AuxIdle

CallRestartType ==
    /\ pc = "restart_type"
    /\ rtype' = restart_type(restart_chooser, installed_file_paths)
    /\ pc' = "restart_type_done"
    /\ UNCHANGED <<tree_vars, status_vars, update_inputs, upc, sorted_cmds, next_cmd,
                   device_log, update_result, installed_file_paths, module_info, commands, wait_vars, adevice_vars,
                   aux_vars>>

NextRestart == CallRestartType

SpecRestart == InitRestart /\ [][NextRestart]_vars

Rank(t) == CASE t = "Reboot" -> 2 [] t = "SoftRestart" -> 1 [] OTHER -> 0

Max(S) == CHOOSE m \in S : \A x \in S : x <= m

\* C9: restart_type returns the maximum, under None < SoftRestart < Reboot,
\* of the decisions of the files, None for no file; the files in any other
\* order give the same result.
C9_RestartIsMaximum ==
    pc = "restart_type_done" =>
        LET files == Range(installed_file_paths)
            ranks == { Rank(chooser_restart_type(restart_chooser, f)) : f \in files }
        IN  /\ rtype \in RestartTypes
            /\ Rank(rtype) = Max(ranks \cup { 0 })
            /\ \A o \in Orders(files) : restart_type(restart_chooser, o) = rtype

\* A file that decides SoftRestart is listed before one that decides Reboot.
C9_Witness ==
    /\ pc = "restart_type_done"
    /\ Len(installed_file_paths) = 2
    /\ chooser_restart_type(restart_chooser, installed_file_paths[1]) = "SoftRestart"
    /\ chooser_restart_type(restart_chooser, installed_file_paths[2]) = "Reboot"
    /\ rtype = "Reboot"

(***************************************************************************)
(* adevice.rs: validate_partitions and adevice, the whole program.         *)
(***************************************************************************)
system_ext == <<"s", "y", "s", "t", "e", "m", "_", "e", "x", "t">>
odm == <<"o", "d", "m">>
product == <<"p", "r", "o", "d", "u", "c", "t">>
lost_found == <<"l", "o", "s", "t", "+", "f", "o", "u", "n", "d">>

DEFAULT_PARTITIONS == { <<system>>, <<system_ext>>, <<odm>>, <<product>> }

\* A mutant of validate_partitions: the names are compared as strings, so a
\* partition that is a prefix of the first component is accepted.
validate_partitions_by_string_prefix(tracked_files, cli_partitions) ==
    LET Prefix(t, q) ==
            /\ Len(path_str(q)) <= Len(path_str(t))
            /\ SubSeq(path_str(t), 1, Len(path_str(q))) = path_str(q)
    IN  IF cli_partitions.some
        THEN IF \E partition \in cli_partitions.value :
                    ~\E t \in tracked_files : Prefix(t, partition)
             THEN Err("is not a valid partition for current lunch target")
             ELSE Ok(cli_partitions.value)
        ELSE Ok({ part \in DEFAULT_PARTITIONS :
                    \E t \in tracked_files : Prefix(t, part) })

\* Result<Vec<String>>: the partitions of the command line if each of them
\* leads a tracked file, else the default partitions that lead one.
validate_partitions(tracked_files, cli_partitions) ==
    IF cli_partitions.some
    THEN IF \E partition \in cli_partitions.value :
                ~\E t \in tracked_files : starts_with(t, partition)
         THEN Err("is not a valid partition for current lunch target")
         ELSE Ok(cli_partitions.value)
    ELSE Ok({ part \in DEFAULT_PARTITIONS :
                \E t \in tracked_files : starts_with(t, part) })

\* A mutant of the removal of lost+found: the device tree is left as it is.
without_lost_found_keeps_all(tree, parts) == tree

\* device_tree.remove(partition/lost+found) for every partition
without_lost_found(tree, parts) ==
    [p \in DOMAIN tree \ { part \o <<lost_found>> : part \in parts } |-> tree[p]]

\* Cli::should_wait
cli_should_wait(c) == IF c.nowait THEN "No" ELSE "Yes"

Finish(result) == pc' = "done" /\ adevice_result' = result

\* adevice calls device::update(.., cmds, ..)
CallUpdate(cmds) ==
    /\ adb_commands' = cmds
    /\ should_wait' = cli_should_wait(cli)
    /\ upc' = "call"
    /\ sorted_cmds' = <<>>
    /\ next_cmd' = 0
    /\ rtype' = "not chosen"
    /\ update_result' = NotCalled
    /\ update_attempts' = update_attempts + 1

\* From " * Checking for files to push to device" to the commands of
\* get_update_commands: the tracked files, the partitions, the fingerprint of
\* the device without lost+found, the fingerprint of the host, the installed
\* apks.  host_tree and device_tree are what the two fingerprint calls
\* return, ninja_installed_files what Host::tracked_files returns.
CheckFiles ==
    /\ pc = "start"
    /\ LET valid == validate_partitions(ninja_installed_files, cli.partitions)
       IN  IF ~valid.ok
           THEN /\ Finish(valid)
                /\ UNCHANGED <<partitions, update_commands, device_log>>
           ELSE \E r1, r2 \in { "Ok", OtherError } :
                  LET tracked == { nif \in ninja_installed_files :
                                      \E q \in valid.value : starts_with(nif, q) }
                      cmds == get_update_commands(
                                  without_lost_found(device_tree, valid.value), host_tree,
                                  tracked, aapt2, installed_packages, valid.value)
                  IN  /\ partitions' = valid.value
                      /\ IF r1 # "Ok"
                         THEN /\ Log("fingerprint", "", r1)
                              /\ Finish(Err(r1))
                              /\ UNCHANGED update_commands
                         ELSE IF r2 # "Ok"
                         THEN /\ device_log' = device_log \o
                                     << DeviceCall("fingerprint", "", r1),
                                        DeviceCall("get_installed_apks", "", r2) >>
                              /\ Finish(Err(r2))
                              /\ UNCHANGED update_commands
                         ELSE /\ device_log' = device_log \o
                                     << DeviceCall("fingerprint", "", r1),
                                        DeviceCall("get_installed_apks", "", r2) >>
                              /\ update_commands' = cmds
                              /\ IF cmds.ok
                                 THEN pc' = "checked" /\ UNCHANGED adevice_result
                                 ELSE Finish(cmds)
    /\ UNCHANGED <<tree_vars, ninja_installed_files, aapt2, installed_packages,
                   update_inputs, upc, sorted_cmds, next_cmd, rtype, update_result,
                   installed_file_paths, module_info, commands, wait_vars, cli, stdin_line, retry, update_attempts,
                   aux_vars>>

\* A mutant of the status command: the stale files it reports are removed.
StatusCommandRemovesStale ==
    /\ pc = "checked"
    /\ cli.command = "Status"
    /\ IF deletes = EmptyMap
       THEN /\ Finish(Ok("()"))
            /\ UNCHANGED <<update_vars, update_attempts>>
       ELSE /\ CallUpdate(deletes)
            /\ pc' = "clean_update"
            /\ UNCHANGED <<restart_chooser, device_log, adevice_result>>
    /\ UNCHANGED <<tree_vars, status_vars, installed_file_paths, module_info, commands, wait_vars, cli,
                   stdin_line, retry, aux_vars>>

\* cli::Commands::Status: the status was printed, nothing else is done.
StatusCommand ==
    /\ pc = "checked"
    /\ cli.command = "Status"
    /\ Finish(Ok("()"))
    /\ UNCHANGED <<tree_vars, status_vars, update_vars, installed_file_paths, module_info, commands, wait_vars, cli,
                   stdin_line, retry, update_attempts, aux_vars>>

\* A mutant of the clean command: the answer to the prompt is not looked at.
CleanCommandIgnoringAnswer ==
    /\ pc = "checked"
    /\ cli.command = "Clean"
    /\ IF deletes = EmptyMap
       THEN /\ Finish(Ok("()"))
            /\ UNCHANGED <<update_vars, update_attempts>>
       ELSE IF Cardinality(DOMAIN deletes) > cli.max_allowed_changes
       THEN /\ Finish(Err("exceeds the configured limit"))
            /\ UNCHANGED <<update_vars, update_attempts>>
       ELSE /\ CallUpdate(deletes)
            /\ pc' = "clean_update"
            /\ UNCHANGED <<restart_chooser, device_log, adevice_result>>
    /\ UNCHANGED <<tree_vars, status_vars, installed_file_paths, module_info, commands, wait_vars, cli, stdin_line, retry,
                   aux_vars>>

\* cli::Commands::Clean, up to the call of device::update with the deletes.
CleanCommand ==
    /\ pc = "checked"
    /\ cli.command = "Clean"
    /\ IF deletes = EmptyMap
       THEN /\ Finish(Ok("()"))
            /\ UNCHANGED <<update_vars, update_attempts>>
       ELSE IF Cardinality(DOMAIN deletes) > cli.max_allowed_changes
       THEN /\ Finish(Err("exceeds the configured limit"))
            /\ UNCHANGED <<update_vars, update_attempts>>
       ELSE IF ~cli.force /\ stdin_line # "y"
       THEN /\ Finish(Err("Not deleting"))
            /\ UNCHANGED <<update_vars, update_attempts>>
       ELSE /\ CallUpdate(deletes)
            /\ pc' = "clean_update"
            /\ UNCHANGED <<restart_chooser, device_log, adevice_result>>
    /\ UNCHANGED <<tree_vars, status_vars, installed_file_paths, module_info, commands, wait_vars, cli, stdin_line, retry,
                   aux_vars>>

\* device::update(restart_chooser, deletes, ..)? of the clean command.
CleanUpdated ==
    /\ pc = "clean_update"
    /\ upc = "returned"
    /\ Finish(update_result)
    /\ UNCHANGED <<tree_vars, status_vars, update_vars, installed_file_paths, module_info, commands, wait_vars, cli,
                   stdin_line, retry, update_attempts, aux_vars>>

all_cmds == upserts @@ deletes

\* A mutant of the update command: only the upserts are handed to update.
UpdateCommandPushesOnly ==
    /\ pc = "checked"
    /\ cli.command = "Update"
    /\ IF upserts = EmptyMap /\ deletes = EmptyMap
       THEN /\ Finish(Ok("()"))
            /\ UNCHANGED <<update_vars, retry, update_attempts>>
       ELSE IF Cardinality(DOMAIN all_cmds) > cli.max_allowed_changes
       THEN /\ Finish(Err("exceeds the configured limit"))
            /\ UNCHANGED <<update_vars, retry, update_attempts>>
       ELSE /\ CallUpdate(upserts)
            /\ retry' = 0
            /\ pc' = "update_loop"
            /\ UNCHANGED <<restart_chooser, device_log, adevice_result>>
    /\ UNCHANGED <<tree_vars, status_vars, installed_file_paths, module_info, commands, wait_vars, cli, stdin_line,
                   aux_vars>>

\* A mutant of the update command: only the upserts are counted against the
\* limit.
UpdateCommandCountsUpsertsOnly ==
    /\ pc = "checked"
    /\ cli.command = "Update"
    /\ IF upserts = EmptyMap /\ deletes = EmptyMap
       THEN /\ Finish(Ok("()"))
            /\ UNCHANGED <<update_vars, retry, update_attempts>>
       ELSE IF Cardinality(DOMAIN upserts) > cli.max_allowed_changes
       THEN /\ Finish(Err("exceeds the configured limit"))
            /\ UNCHANGED <<update_vars, retry, update_attempts>>
       ELSE /\ CallUpdate(all_cmds)
            /\ retry' = 0
            /\ pc' = "update_loop"
            /\ UNCHANGED <<restart_chooser, device_log, adevice_result>>
    /\ UNCHANGED <<tree_vars, status_vars, installed_file_paths, module_info, commands, wait_vars, cli, stdin_line,
                   aux_vars>>

\* cli::Commands::Update, up to the first call of device::update.
UpdateCommand ==
    /\ pc = "checked"
    /\ cli.command = "Update"
    /\ IF upserts = EmptyMap /\ deletes = EmptyMap
       THEN /\ Finish(Ok("()"))
            /\ UNCHANGED <<update_vars, retry, update_attempts>>
       ELSE IF Cardinality(DOMAIN all_cmds) > cli.max_allowed_changes
       THEN /\ Finish(Err("exceeds the configured limit"))
            /\ UNCHANGED <<update_vars, retry, update_attempts>>
       ELSE /\ CallUpdate(all_cmds)
            /\ retry' = 0
            /\ pc' = "update_loop"
            /\ UNCHANGED <<restart_chooser, device_log, adevice_result>>
    /\ UNCHANGED <<tree_vars, status_vars, installed_file_paths, module_info, commands, wait_vars, cli, stdin_line,
                   aux_vars>>

\* A mutant of the loop: the device is fingerprinted again after
\* prep_after_flash, before the second attempt.
UpdateLoopFingerprintsAgain ==
    /\ pc = "update_loop"
    /\ upc = "returned"
    /\ IF update_result.ok
       THEN /\ Finish(Ok("()"))
            /\ UNCHANGED <<update_vars, retry, update_attempts>>
       ELSE IF retry = 1
       THEN /\ Finish(Err(<<"Not expecting errors after a retry", update_result.err>>))
            /\ UNCHANGED <<update_vars, retry, update_attempts>>
       ELSE \E r \in DeviceResults :
              IF r # "Ok"
              THEN /\ Log("prep_after_flash", "", r)
                   /\ Finish(Err(r))
                   /\ UNCHANGED <<adb_commands, restart_chooser, should_wait, upc,
                                  sorted_cmds, next_cmd, rtype, update_result, retry,
                                  update_attempts>>
              ELSE /\ device_log' = device_log \o
                          << DeviceCall("prep_after_flash", "", r),
                             DeviceCall("fingerprint", "", "Ok") >>
                   /\ CallUpdate(all_cmds)
                   /\ retry' = retry + 1
                   /\ UNCHANGED <<pc, restart_chooser, adevice_result>>
    /\ UNCHANGED <<tree_vars, status_vars, installed_file_paths, module_info, commands, wait_vars, cli, stdin_line,
                   aux_vars>>

\* A mutant of the loop: it runs for retry in 0..=2.
UpdateLoopThreeTimes ==
    /\ pc = "update_loop"
    /\ upc = "returned"
    /\ IF update_result.ok
       THEN /\ Finish(Ok("()"))
            /\ UNCHANGED <<update_vars, retry, update_attempts>>
       ELSE IF retry = 2
       THEN /\ Finish(Err(<<"Not expecting errors after a retry", update_result.err>>))
            /\ UNCHANGED <<update_vars, retry, update_attempts>>
       ELSE \E r \in DeviceResults :
              /\ Log("prep_after_flash", "", r)
              /\ IF r # "Ok"
                 THEN /\ Finish(Err(r))
                      /\ UNCHANGED <<adb_commands, restart_chooser, should_wait, upc,
                                     sorted_cmds, next_cmd, rtype, update_result, retry,
                                     update_attempts>>
                 ELSE /\ CallUpdate(all_cmds)
                      /\ retry' = retry + 1
                      /\ UNCHANGED <<pc, restart_chooser, adevice_result>>
    /\ UNCHANGED <<tree_vars, status_vars, installed_file_paths, module_info, commands, wait_vars, cli, stdin_line,
                   aux_vars>>

\* The body of `for retry in 0..=1` once device::update has returned: Ok
\* breaks the loop; an error of the second attempt is returned; an error of
\* the first attempt is followed by prep_after_flash and the second attempt.
UpdateLoop ==
    /\ pc = "update_loop"
    /\ upc = "returned"
    /\ IF update_result.ok
       THEN /\ Finish(Ok("()"))
            /\ UNCHANGED <<update_vars, retry, update_attempts>>
       ELSE IF retry = 1
       THEN /\ Finish(Err(<<"Not expecting errors after a retry", update_result.err>>))
            /\ UNCHANGED <<update_vars, retry, update_attempts>>
       ELSE \E r \in DeviceResults :
              /\ Log("prep_after_flash", "", r)
              /\ IF r # "Ok"
                 THEN /\ Finish(Err(r))
                      /\ UNCHANGED <<adb_commands, restart_chooser, should_wait, upc,
                                     sorted_cmds, next_cmd, rtype, update_result, retry,
                                     update_attempts>>
                 ELSE /\ CallUpdate(all_cmds)
                      /\ retry' = retry + 1
                      /\ UNCHANGED <<pc, restart_chooser, adevice_result>>
    /\ UNCHANGED <<tree_vars, status_vars, installed_file_paths, module_info, commands, wait_vars, cli, stdin_line,
                   aux_vars>>

(***************************************************************************)
(* Spec: one run of adevice status, update or clean.                       *)
(***************************************************************************)
P_old == <<system, <<"o", "l", "d">> >>
P_lost_found == <<system, lost_found>>

\* The limits on the number of changes the runs are given.
SmallLimit == 1
DefaultLimit == 200

HostTrees == { EmptyMap, (P_f :> file_metadata("d1")) }

DeviceTrees ==
    { f @@ o @@ l :
        f \in { EmptyMap, (P_f :> file_metadata("d1")), (P_f :> file_metadata("d2")) },
        o \in { EmptyMap, (P_old :> file_metadata("d1")) },
        l \in { EmptyMap, (P_lost_found :> dir_metadata) } }

CliCommands ==
    { [command |-> c, force |-> f, max_allowed_changes |-> m, nowait |-> w,
       partitions |-> NoPartitions] :
        c \in { "Status", "Update", "Clean" }, f \in BOOLEAN,
        m \in { SmallLimit, DefaultLimit }, w \in BOOLEAN }

Init ==
    /\ pc = "start"
    /\ host_tree \in HostTrees
    /\ device_tree \in DeviceTrees
    /\ diffs = DefaultDiffs
    /\ ninja_installed_files \in SUBSET { P_f }
    /\ partitions = {}
    /\ aapt2 = EmptyMap
    /\ installed_packages = {}
    /\ update_commands = NotCalled
    /\ adb_commands = EmptyMap
    /\ restart_chooser \in { EmptyMap, [p \in { P_f, P_old } |-> "Reboot"] }
    /\ should_wait = "No"
    /\ upc = "idle"
    /\ UpdateNotStarted
    /\ installed_file_paths = <<>>
    /\ cli \in { c \in CliCommands : c.force => c.command = "Clean" }
    /\ stdin_line \in { "y", "n" }
    /\ cli.command # "Clean" \/ cli.force => stdin_line = "n"
    /\ retry = 0
    /\ update_attempts = 0
    /\ adevice_result = NotCalled
    /\ module_info = {}
    /\ commands = NoCommands
    /\ WaitIdle
    /\ AuxIdle

Next ==
    \/ CheckFiles
    \/ StatusCommand
    \/ CleanCommand
    \/ CleanUpdated
    \/ UpdateCommand
    \/ UpdateLoop
    \/ Update

Spec == Init /\ [][Next]_vars

\* The calls update makes on the Device.
UpdateOps == { "run_raw_adb_command", "run_adb_command", "reboot", "soft_restart", "wait" }

\* The prep_after_flash at position k of the log follows a failed call of
\* an update attempt.
RecoversFrom(k) ==
    /\ k > 1
    /\ device_log[k - 1].op \in UpdateOps
    /\ device_log[k - 1].result # "Ok"

\* C5: in a run of the update command device::update is attempted at most
\* twice and prep_after_flash is called at most once; a second attempt is
\* made only after the first one failed and prep_after_flash returned Ok; the
\* failure of the second attempt ends the run with that error; after a first
\* attempt that returned Ok there is no prep_after_flash and no second attempt.
C5_AtMostOneRetry ==
    cli.command = "Update" =>
        /\ update_attempts <= 2
        /\ Calls("prep_after_flash") <= 1
        /\ \A k \in DOMAIN device_log :
              device_log[k].op = "prep_after_flash" => RecoversFrom(k)
        /\ (update_attempts = 2 =>
               \E k \in DOMAIN device_log :
                  device_log[k].op = "prep_after_flash" /\ device_log[k].result = "Ok")
        /\ (Calls("prep_after_flash") = 1 /\ update_attempts = 1 =>
               /\ pc = "done"
               /\ ~adevice_result.ok)
        /\ (pc = "done" /\ update_attempts = 2 /\ ~update_result.ok =>
               /\ ~adevice_result.ok
               /\ adevice_result.err[2] = update_result.err)
        /\ (pc = "done" /\ update_attempts >= 1 /\ update_result.ok =>
               /\ adevice_result.ok
               /\ (update_attempts = 1 => Calls("prep_after_flash") = 0))

\* The second attempt failed and adevice returned its error.
C5_Witness ==
    /\ cli.command = "Update"
    /\ pc = "done"
    /\ update_attempts = 2
    /\ Calls("prep_after_flash") = 1
    /\ ~update_result.ok
    /\ ~adevice_result.ok
    /\ adevice_result.err[2] = update_result.err

\* C6: prep_after_flash and the second attempt follow only a failure whose
\* message has "Read-only file system" in it; after any other failure of the
\* first attempt adevice returns that error.
C6_OnlyReadOnlyFailureRecovers ==
    cli.command = "Update" =>
        \A k \in DOMAIN device_log :
            device_log[k].op = "prep_after_flash" =>
                k > 1 /\ device_log[k - 1].result = ReadOnlyFs

\* The calls that change the device: those of update and prep_after_flash.
MutatingOps == UpdateOps \cup { "prep_after_flash" }
Mutated == \E k \in DOMAIN device_log : device_log[k].op \in MutatingOps

\* The commands have been computed and the command of the run has acted on
\* them.
Decided == pc \in { "clean_update", "update_loop", "done" } /\ update_commands.ok

\* The number of changes the command of the run would make.
Changes ==
    IF cli.command = "Update"
    THEN Cardinality(DOMAIN upserts) + Cardinality(DOMAIN deletes)
    ELSE IF cli.command = "Clean" THEN Cardinality(DOMAIN deletes) ELSE 0

LimitError == Err("exceeds the configured limit")

\* C11: if update has more upserts plus deletes than max_allowed_changes, or
\* clean more deletes, adevice returns the error of the limit and no call that
\* changes the device is made; a count equal to the limit is not refused.
C11_LimitBeforeMutation ==
    /\ (update_commands.ok /\ Changes > cli.max_allowed_changes) =>
          /\ ~Mutated
          /\ update_attempts = 0
          /\ (Decided => pc = "done" /\ adevice_result = LimitError)
    /\ (Decided /\ Changes <= cli.max_allowed_changes) =>
          /\ adevice_result # LimitError
          /\ (cli.command = "Update" /\ Changes > 0 => update_attempts >= 1)

\* An update with more changes than the limit, refused.
C11_Witness ==
    /\ Decided
    /\ cli.command = "Update"
    /\ Changes = cli.max_allowed_changes + 1
    /\ adevice_result = LimitError

\* Changes equal to the limit went to the device.
C11_WitnessAtLimit ==
    /\ Decided
    /\ Changes = cli.max_allowed_changes
    /\ Mutated

\* A delete command was executed on the device.
DeleteSent == \E j \in DOMAIN sent : is_rm(sent[j].arg)

\* The clean command with --force or with the answer y.
CleanAuthorised == cli.command = "Clean" /\ (cli.force \/ stdin_line = "y")

\* C12 as claimed: a delete command is executed only by a clean command that
\* was forced or confirmed with y.
C12_DeletesOnlyWhenAuthorised ==
    DeleteSent => CleanAuthorised

\* C12 amended: a delete command is executed only by a clean command that was
\* forced or confirmed with y, or by the update command, which sends the
\* delete commands together with its upserts and asks nothing; status and a
\* clean that was not confirmed delete nothing.
C12_DeletesByCleanOrUpdate ==
    /\ DeleteSent => CleanAuthorised \/ cli.command = "Update"
    /\ (cli.command = "Clean" /\ ~CleanAuthorised) => ~Mutated
    /\ cli.command = "Status" => ~Mutated
    /\ \A j \in DOMAIN sent :
          /\ cli.command = "Clean" => is_rm(sent[j].arg)
          /\ is_rm(sent[j].arg) => sent[j].arg = deletes[sent[j].arg.file]

\* A clean that was confirmed with y has deleted a file.
C12_Witness ==
    /\ cli.command = "Clean"
    /\ ~cli.force
    /\ stdin_line = "y"
    /\ DeleteSent

\* The device paths adevice looks at: lost+found of a partition is dropped.
seen_device_tree == without_lost_found(device_tree, partitions)

\* A stale device file: on the device, not on the host, not tracked.
StalePaths ==
    { p \in DOMAIN seen_device_tree : p \notin DOMAIN host_tree /\ p \notin tracked_set }

\* The command was executed and returned Ok.
SentOk(cmd) == \E j \in DOMAIN sent : sent[j].arg = cmd /\ sent[j].result = "Ok"

\* C13: in a run of the update command every stale device path has a delete
\* command, that command is handed to device::update in the same map as the
\* upserts, and a run that returns Ok has executed it and the upserts.
C13_UpdateDeletesStale ==
    (cli.command = "Update" /\ update_commands.ok) =>
        \A p \in StalePaths :
            /\ p \in DOMAIN deletes
            /\ is_rm(deletes[p])
            /\ device_path(deletes[p]) = p
            /\ update_attempts >= 1 =>
                  /\ p \in DOMAIN adb_commands
                  /\ adb_commands[p] = deletes[p]
                  /\ \A u \in DOMAIN upserts : adb_commands[u] = upserts[u]
            /\ (pc = "done" /\ adevice_result.ok /\ update_attempts >= 1) =>
                  /\ SentOk(deletes[p])
                  /\ \A u \in DOMAIN upserts : SentOk(upserts[u])

\* An update that pushed a file and deleted a stale one.
C13_Witness ==
    /\ cli.command = "Update"
    /\ pc = "done"
    /\ adevice_result.ok
    /\ P_old \in StalePaths
    /\ P_f \in DOMAIN upserts
    /\ SentOk(AdbCommand("DeleteFile", <<>>, P_old))
    /\ SentOk(upserts[P_f])

\* C14: no key of Commands.deletes is in the tracked set, so clean removes
\* only untracked paths.
C14_DeletesAreUntracked ==
    GotCommands => DOMAIN deletes \cap tracked_set = {}

\* C15: if the k-th command of the sorted sequence fails, the commands sent
\* are exactly the first k of the sequence, the first k-1 returned Ok, the
\* failing call is the last call of update on the device (nothing is undone,
\* no later command, no restart, no wait), and update returns that error.
C15_FailureStopsUpdate ==
    /\ \A i \in DOMAIN sent : i <= Len(sorted_cmds) /\ sent[i].arg = sorted_cmds[i]
    /\ \A k \in DOMAIN sent :
          sent[k].result # "Ok" =>
              /\ k = Len(sent)
              /\ \A i \in 1..(k - 1) : sent[i].result = "Ok"
              /\ device_log[Len(device_log)] = sent[k]
              /\ Calls("reboot") = 0 /\ Calls("soft_restart") = 0 /\ Calls("wait") = 0
              /\ upc = "returned"
              /\ update_result = Err(sent[k].result)

\* The third of four commands failed.
C15_Witness ==
    /\ Len(sorted_cmds) = 4
    /\ Len(sent) = 3
    /\ sent[3].result # "Ok"
    /\ restart_chooser # EmptyMap
    /\ upc = "returned"

\* C16 as claimed: a second attempt is made from fingerprints taken after
\* prep_after_flash.
C16_RetryRecomputesDiff ==
    update_attempts = 2 =>
        \E k, j \in DOMAIN device_log :
            /\ device_log[k].op = "prep_after_flash"
            /\ k < j
            /\ device_log[j].op = "fingerprint"

\* C16 amended: the second attempt is given the map of commands that was
\* computed before the first attempt; the device is fingerprinted once, before
\* the first attempt, and no fingerprint is taken after prep_after_flash.
C16_RetryReusesCommands ==
    (cli.command = "Update" /\ update_attempts >= 1) =>
        /\ adb_commands = all_cmds
        /\ Calls("fingerprint") = 1
        /\ Calls("get_installed_apks") = 1
        /\ device_log[1].op = "fingerprint"
        /\ device_log[2].op = "get_installed_apks"
        /\ \A j \in DOMAIN sent : sent[j].arg \in { all_cmds[p] : p \in DOMAIN all_cmds }

\* The second attempt sent again a command that had returned Ok in the first.
C16_Witness ==
    /\ update_attempts = 2
    /\ \E i, j \in DOMAIN sent :
          i < j /\ sent[i].arg = sent[j].arg /\ sent[i].result = "Ok"

(***************************************************************************)
(* SpecPartitions: adevice up to the commands of get_update_commands, for  *)
(* the tracked files and the --partitions of the validate_partition tests. *)
(***************************************************************************)
n_sys == <<"s", "y", "s">>
data == <<"d", "a", "t", "a">>

\* system/file1, file3, data/sys/file4 and a file on system_ext
T_top == <<n_f>>
T_data == <<data, n_sys, n_f>>
T_ext == <<system_ext, n_f>>
PartitionFiles == { P_f, T_top, T_data, T_ext }

\* --partitions as given on the command line, or not given.
CliPartitions ==
    { NoPartitions } \cup
    { SomePartitions(S) :
        S \in { { <<n_sys>> }, { <<system>> }, { <<system>>, <<odm>> }, { <<data>> } } }

InitPartitions ==
    /\ pc = "start"
    /\ host_tree = EmptyMap
    /\ device_tree \in { EmptyMap, (P_old :> file_metadata("d1")) }
    /\ diffs = DefaultDiffs
    /\ ninja_installed_files \in SUBSET PartitionFiles
    /\ partitions = {}
    /\ aapt2 = EmptyMap
    /\ installed_packages = {}
    /\ update_commands = NotCalled
    /\ UpdateIdle
    /\ installed_file_paths = <<>>
    /\ cli \in { [command |-> c, force |-> FALSE, max_allowed_changes |-> DefaultLimit,
                 nowait |-> FALSE, partitions |-> q] :
                   c \in { "Status", "Update" }, q \in CliPartitions }
    /\ stdin_line = "n"
    /\ retry = 0
    /\ update_attempts = 0
    /\ adevice_result = NotCalled
    /\ module_info = {}
    /\ commands = NoCommands
    /\ WaitIdle
    /\ AuxIdle

NextPartitions == CheckFiles

SpecPartitions == InitPartitions /\ [][NextPartitions]_vars

\* q is a whole leading path component of the tracked file t.
Leads(q, t) == Len(q) <= Len(t) /\ \A i \in 1..Len(q) : t[i] = q[i]
LeadsTracked(q) == \E t \in ninja_installed_files : Leads(q, t)

LostFoundDirs == { q \o <<lost_found>> : q \in partitions }

\* C18: lost+found of a synced partition has no status, no delete command is
\* produced for it and none is sent, while the other stale device paths of
\* the run get their delete command.
C18_LostFoundIgnored ==
    update_commands.ok =>
        /\ \A l \in LostFoundDirs :
              /\ l \notin DOMAIN status_per_file
              /\ l \notin DOMAIN deletes
              /\ l \notin DOMAIN upserts
              /\ l \notin DOMAIN adb_commands
              /\ \A k \in DOMAIN device_log :
                    device_log[k].op = "run_adb_command" => device_log[k].arg.file # l
        /\ \A p \in DOMAIN device_tree \ LostFoundDirs :
              (p \notin DOMAIN host_tree /\ p \notin tracked_set) => p \in DOMAIN deletes

\* A clean that deleted a stale file of a device that has system/lost+found.
C18_Witness ==
    /\ cli.command = "Clean"
    /\ pc = "done"
    /\ adevice_result.ok
    /\ P_lost_found \in DOMAIN device_tree
    /\ P_lost_found \in LostFoundDirs
    /\ SentOk(AdbCommand("DeleteFile", <<>>, P_old))

(***************************************************************************)
(* C19: what a changed path that is not soft-restartable contributes.      *)
(***************************************************************************)
\* The files of the list that the chooser does not classify as
\* soft-restartable: the chooser says Reboot for them, or does not know them
\* because no module of module-info installs them.
NotSoftRestartable ==
    { f \in Range(installed_file_paths) :
        \/ f \notin DOMAIN restart_chooser
        \/ chooser_restart_type(restart_chooser, f) = "Reboot" }

\* C19: a changed path that cannot be classified as soft-restartable, a path
\* that module-info does not know included, makes the combined decision
\* Reboot; the decision for a list with such a path is never None.
C19_UnclassifiedPathReboots ==
    (pc = "restart_type_done" /\ NotSoftRestartable # {}) => rtype = "Reboot"

(***************************************************************************)
(* C20: the members of the tracked set of get_update_commands.             *)
(***************************************************************************)
\* The path f itself and its ancestors that lie strictly below the nearest
\* partition above f: no path from the ancestor up to f is a partition.
BelowPartitionRoot(f) ==
    { SubSeq(f, 1, k) : k \in { k \in 0..Len(f) :
                                  \A j \in k..Len(f) : SubSeq(f, 1, j) \notin partitions } }

TrackedBelowRoots ==
    ninja_installed_files \cup UNION { BelowPartitionRoot(f) : f \in ninja_installed_files }

\* C20 as stated: the tracked set is exactly the tracked files and their
\* ancestors strictly below the partition root; no partition root is a
\* member of it.
C20_TrackedSetExcludesRoot ==
    pc = "got_update_commands" =>
        /\ tracked_set = TrackedBelowRoots
        /\ partitions \cap tracked_set = {}

\* C20 amended: the tracked set is the tracked files, their ancestors
\* strictly below the partition root, and every partition root itself; a
\* partition root that host and device both hold is therefore never deleted.
C20_TrackedSetIncludesRoot ==
    pc = "got_update_commands" =>
        /\ tracked_set = TrackedBelowRoots \cup partitions
        /\ partitions \subseteq tracked_set
        /\ GotCommands =>
              \A p \in partitions :
                  p \in DOMAIN host_tree /\ p \in DOMAIN device_tree => p \notin DOMAIN deletes

\* A tracked file two levels below the partition root, with the root on the
\* host and on the device: its directory and the root are both tracked.
C20_Witness ==
    /\ GotCommands
    /\ partitions = { P_sys }
    /\ P_apk \in ninja_installed_files
    /\ P_a \in tracked_set
    /\ P_sys \in tracked_set
    /\ P_sys \in DOMAIN host_tree /\ P_sys \in DOMAIN device_tree
    /\ P_sys \notin DOMAIN deletes

(***************************************************************************)
(* device.rs: run_process_with_retry_until_timeout and RealDevice::wait.   *)
(* Time is counted in ticks; Duration::as_secs drops the part of a second. *)
(***************************************************************************)
TicksPerSec == 2

\* The longest a command runs before it exits by itself.
MaxRunTicks == 3

\* The longest timeout of a direct call of run_process_with_retry_until_timeout.
MaxTimeoutTicks == 5

max_retries == 5

delay_secs == 1

connect_timeout_secs == 75

boot_timeout_secs == 260

wait_for_device == "wait-for-device"
wait_boot_completed == "wait-for-device shell while [[ -z $(getprop sys.boot_completed) ]]"

\* Duration::saturating_sub.
saturating_sub(a, b) == IF a > b THEN a - b ELSE 0

\* Duration::as_secs of a number of ticks.
as_secs(ticks) == ticks \div TicksPerSec

\* The call of run_process_with_retry_until_timeout: the locals before the loop.
CallProcess(t) ==
    /\ proc_pc' = "loop"
    /\ timeout' = t
    /\ elapsed' = 0
    /\ retry_count' = 0
    /\ timeout_arg' = 0
    /\ spawned' = 0
    /\ process_result' = NotCalled

bail == Err("Command failed to execute")

\* The head of the while loop, up to the start of the timeout binary. Some
\* time, less than a second, has passed since elapsed was last known.
RetryLoop ==
    /\ proc_pc = "loop"
    /\ \E now \in elapsed..(elapsed + 1) :
          LET time_left == saturating_sub(timeout, now)
          IN  /\ elapsed' = now
              /\ IF retry_count < max_retries /\ time_left > 0
                 THEN /\ retry_count' = retry_count + 1
                      /\ timeout_arg' = as_secs(time_left)
                      /\ spawned' = spawned + 1
                      /\ proc_pc' = "running"
                      /\ UNCHANGED process_result
                 ELSE /\ process_result' = bail
                      /\ proc_pc' = "returned"
                      /\ UNCHANGED <<retry_count, timeout_arg, spawned>>
    /\ UNCHANGED <<pc, tree_vars, status_vars, update_vars, installed_file_paths,
                   adevice_vars, module_info, commands, wait_pc, wait_calls, wait_result, timeout,
                   aux_vars>>

\* How long the command may run by itself under `timeout <timeout_arg>`: a
\* duration of 0 disables the limit of the timeout binary.
RunTimes ==
    { d \in 0..MaxRunTicks : timeout_arg = 0 \/ d < timeout_arg * TicksPerSec }

\* The command exits with status 0: its stdout is returned, an error if it
\* is not UTF-8.
ExitSuccess ==
    /\ proc_pc = "running"
    /\ \E d \in RunTimes : elapsed' = elapsed + d
    /\ \E stdout \in { "stdout", "not utf-8" } :
          process_result' = IF stdout = "stdout" THEN Ok(stdout) ELSE Err("FromUtf8Error")
    /\ proc_pc' = "returned"
    /\ UNCHANGED <<pc, tree_vars, status_vars, update_vars, installed_file_paths,
                   adevice_vars, module_info, commands, wait_pc, wait_calls, wait_result, timeout,
                   retry_count, timeout_arg, spawned, aux_vars>>

\* The command exits with another status: sleep(delay), then the loop again.
ExitFailure ==
    /\ proc_pc = "running"
    /\ \E d \in RunTimes : elapsed' = elapsed + d + delay_secs * TicksPerSec
    /\ proc_pc' = "loop"
    /\ UNCHANGED <<pc, tree_vars, status_vars, update_vars, installed_file_paths,
                   adevice_vars, module_info, commands, wait_pc, wait_calls, wait_result, timeout,
                   retry_count, timeout_arg, spawned, process_result, aux_vars>>

\* The command does not exit by itself and the timeout binary ends it after
\* timeout_arg seconds, with a status that is not 0.
TimedOut ==
    /\ proc_pc = "running"
    /\ timeout_arg > 0
    /\ elapsed' = elapsed + (timeout_arg + delay_secs) * TicksPerSec
    /\ proc_pc' = "loop"
    /\ UNCHANGED <<pc, tree_vars, status_vars, update_vars, installed_file_paths,
                   adevice_vars, module_info, commands, wait_pc, wait_calls, wait_result, timeout,
                   retry_count, timeout_arg, spawned, process_result, aux_vars>>

\* The command does not exit by itself and was started under `timeout 0`:
\* nothing ends it, Command::output never returns.
Blocks ==
    /\ proc_pc = "running"
    /\ timeout_arg = 0
    /\ proc_pc' = "blocked"
    /\ UNCHANGED <<pc, tree_vars, status_vars, update_vars, installed_file_paths,
                   adevice_vars, module_info, commands, wait_pc, wait_calls, wait_result, timeout,
                   elapsed, retry_count, timeout_arg, spawned, process_result, aux_vars>>

\* wait_for_adb_with_timeout, as RealDevice::wait calls it.
wait_for_adb_with_timeout(adb_args, secs) ==
    /\ wait_calls' = Append(wait_calls, [adb_args |-> adb_args, timeout |-> secs])
    /\ CallProcess(secs * TicksPerSec)

\* A mutant of RealDevice::wait: the boot-completed wait comes first.
WaitForBootFirst ==
    /\ wait_pc = "call"
    /\ wait_for_adb_with_timeout(wait_boot_completed, boot_timeout_secs)
    /\ wait_pc' = "boot"
    /\ UNCHANGED <<pc, tree_vars, status_vars, update_vars, installed_file_paths,
                   adevice_vars, module_info, commands, wait_result, aux_vars>>

\* RealDevice::wait, [1/2]: adb wait-for-device.
WaitForDevice ==
    /\ wait_pc = "call"
    /\ wait_for_adb_with_timeout(wait_for_device, connect_timeout_secs)
    /\ wait_pc' = "connect"
    /\ UNCHANGED <<pc, tree_vars, status_vars, update_vars, installed_file_paths,
                   adevice_vars, module_info, commands, wait_result, aux_vars>>

\* RealDevice::wait, [2/2]: `?` returns the error of the first wait,
\* otherwise the wait for sys.boot_completed starts.
WaitForBootCompleted ==
    /\ wait_pc = "connect"
    /\ proc_pc = "returned"
    /\ IF process_result.ok
       THEN /\ wait_for_adb_with_timeout(wait_boot_completed, boot_timeout_secs)
            /\ wait_pc' = "boot"
            /\ UNCHANGED wait_result
       ELSE /\ wait_result' = process_result
            /\ wait_pc' = "returned"
            /\ UNCHANGED <<wait_calls, process_vars>>
    /\ UNCHANGED <<pc, tree_vars, status_vars, update_vars, installed_file_paths,
                   adevice_vars, module_info, commands, aux_vars>>

\* RealDevice::wait returns the result of the second wait.
WaitReturns ==
    /\ wait_pc = "boot"
    /\ proc_pc = "returned"
    /\ wait_result' = process_result
    /\ wait_pc' = "returned"
    /\ UNCHANGED <<pc, tree_vars, status_vars, update_vars, installed_file_paths,
                   adevice_vars, module_info, commands, wait_calls, process_vars, aux_vars>>

(***************************************************************************)
(* SpecWait: one call of RealDevice::wait, or one direct call of           *)
(* run_process_with_retry_until_timeout with a short timeout.              *)
(***************************************************************************)
ProcessTimeouts == 1..MaxTimeoutTicks

InitWait ==
    /\ pc = "wait"
    /\ TreesIdle
    /\ StatusIdle
    /\ UpdateIdle
    /\ installed_file_paths = <<>>
    /\ AdeviceIdle
    /\ module_info = {}
    /\ commands = NoCommands
    /\ wait_calls = <<>>
    /\ wait_result = NotCalled
    /\ elapsed = 0
    /\ retry_count = 0
    /\ timeout_arg = 0
    /\ spawned = 0
    /\ process_result = NotCalled
    /\ AuxIdle
    /\ \/ wait_pc = "call" /\ proc_pc = "idle" /\ timeout = 0
       \/ wait_pc = "idle" /\ proc_pc = "loop" /\ timeout \in ProcessTimeouts

NextWait ==
    \/ WaitForDevice
    \/ WaitForBootCompleted
    \/ WaitReturns
    \/ RetryLoop
    \/ ExitSuccess
    \/ ExitFailure
    \/ TimedOut
    \/ Blocks

SpecWait == InitWait /\ [][NextWait]_vars

\* Every step that is possible is taken at some time: the program runs.
SpecWaitFair == SpecWait /\ WF_vars(NextWait)

(***************************************************************************)
(* C21: run_process_with_retry_until_timeout comes to an end.              *)
(***************************************************************************)
\* The command is started at most max_retries times, and only while time is
\* left; a result that is Ok carries the stdout of the command.
ProcessBounded ==
    /\ spawned <= max_retries
    /\ proc_pc = "running" => elapsed < timeout
    /\ (proc_pc = "returned" /\ process_result.ok) => process_result.value = "stdout"

\* C21: run_process_with_retry_until_timeout always terminates: it starts
\* the command at most 5 times, never after the timeout has elapsed, and
\* every call returns, Ok with the stdout of a successful attempt or an error.
C21_AlwaysTerminates ==
    /\ []ProcessBounded
    /\ (proc_pc = "loop") ~> (proc_pc = "returned")

(***************************************************************************)
(* C22: the two waits of RealDevice::wait.                                 *)
(***************************************************************************)
\* The calls of wait_for_adb_with_timeout so far are the connection wait,
\* then at most the boot-completion wait; a wait that returned after the
\* first call alone returned its error.
WaitCallsInOrder ==
    /\ Len(wait_calls) <= 2
    /\ Len(wait_calls) >= 1 => wait_calls[1].adb_args = wait_for_device
    /\ Len(wait_calls) = 2 => wait_calls[2].adb_args = wait_boot_completed
    /\ (wait_pc = "returned" /\ Len(wait_calls) = 1) => ~wait_result.ok
    /\ (wait_pc = "returned" /\ wait_result.ok) => Len(wait_calls) = 2

\* The boot-completion wait starts only in a step that sees the connection
\* wait returned Ok.
BootWaitAfterConnected ==
    Len(wait_calls') = 2 /\ Len(wait_calls) = 1 =>
        proc_pc = "returned" /\ process_result.ok

\* C22 as stated: the connection wait runs first, the boot-completion wait
\* only if it succeeded, and the timeout of the connection wait is strictly
\* greater than the timeout of the boot-completion wait.
C22_ConnectWaitIsLonger ==
    /\ []WaitCallsInOrder
    /\ [][BootWaitAfterConnected]_vars
    /\ [](Len(wait_calls) = 2 => wait_calls[1].timeout > wait_calls[2].timeout)

\* C22 amended: the connection wait runs first, the boot-completion wait
\* only if it succeeded, and the timeout of the connection wait (75 s) is
\* strictly smaller than the timeout of the boot-completion wait (260 s).
C22_ConnectWaitIsShorter ==
    /\ []WaitCallsInOrder
    /\ [][BootWaitAfterConnected]_vars
    /\ [](Len(wait_calls) = 2 => wait_calls[1].timeout < wait_calls[2].timeout)

\* A wait that returned Ok after both waits, and one that returned the
\* error of the connection wait.
C22_Witness ==
    /\ wait_pc = "returned"
    /\ wait_result.ok
    /\ Len(wait_calls) = 2

(***************************************************************************)
(* C25: the status command changes nothing on the device.                  *)
(***************************************************************************)
\* C25: a run of the status command makes no call of device::update: no
\* stop, remount or setprop, no mkdir, push, symlink or delete command, no
\* soft restart, reboot or wait; the only calls on the Device are the
\* fingerprint and the list of installed apks, and the run ends Ok once the
\* commands are computed.
C25_StatusLeavesDevice ==
    cli.command = "Status" =>
        /\ ~Mutated
        /\ \A k \in DOMAIN device_log :
              device_log[k].op \in { "fingerprint", "get_installed_apks" }
        /\ update_attempts = 0
        /\ upc = "idle"
        /\ (pc = "done" /\ update_commands.ok) => adevice_result = Ok("()")

\* A status run that ended Ok for a device that needs a push and a delete.
C25_Witness ==
    /\ cli.command = "Status"
    /\ pc = "done"
    /\ adevice_result.ok
    /\ update_commands.ok
    /\ upserts # EmptyMap
    /\ deletes # EmptyMap
    /\ ~Mutated

(***************************************************************************)
(* C27: prep_for_push comes before every command of update.                *)
(***************************************************************************)
\* The raw adb commands prep_for_push has to issue, in order.
PrepExpected ==
    IF should_wait = "Yes"
    THEN <<"exec-out stop", "remount", "exec-out setprop sys.boot_completed">>
    ELSE <<"exec-out stop", "remount">>

\* C27: an update with commands first issues exec-out stop, then remount,
\* then, if and only if should_wait is Yes, the command clearing
\* sys.boot_completed; every other call on the device comes after all of
\* them returned Ok; a preparation command that fails is the last call and
\* update returns its error.
C27_PrepBeforeCommands ==
    LET n == Len(PrepExpected)
    IN  /\ \A k \in DOMAIN device_log :
              IF k <= n
              THEN /\ device_log[k].op = "run_raw_adb_command"
                   /\ device_log[k].arg = PrepExpected[k]
                   /\ device_log[k].result # "Ok" =>
                         /\ Len(device_log) = k
                         /\ upc = "returned"
                         /\ update_result = Err(device_log[k].result)
              ELSE /\ device_log[k].op # "run_raw_adb_command"
                   /\ \A i \in 1..n : device_log[i].result = "Ok"
        /\ (upc \in { "sort", "run", "restart", "wait" } \/ rtype # "not chosen") =>
              Len(device_log) >= n
        /\ adb_commands = EmptyMap => device_log = <<>>

\* An update that waits sent a command after the three preparation commands.
C27_Witness ==
    /\ should_wait = "Yes"
    /\ Len(device_log) > 3
    /\ device_log[3].arg = "exec-out setprop sys.boot_completed"
    /\ device_log[4].op = "run_adb_command"

(***************************************************************************)
(* restart_chooser.rs: RestartChooser::new, the map from the installed     *)
(* files of module-info.json to their RestartType.                         *)
(***************************************************************************)
SOFT_RESTART_FILE_EXTS == { <<"a", "r", "t">>, <<"o", "a", "t">>, <<"v", "d", "e", "x">> }

REBOOTS_FILE_EXTS == { <<"r", "c">> }

SOFT_RESET_GROUP == { "APPS", "EXECUTABLES", "JAVA_LIBRARIES", "SHARED_LIBRARIES" }

can_soft_restart_based_on_filename(filename) == extension(filename) \in SOFT_RESTART_FILE_EXTS

should_force_reboot_on_filename(filename) == extension(filename) \in REBOOTS_FILE_EXTS

restart_type_for_classes(classes) ==
    IF \E class \in classes : class \notin SOFT_RESET_GROUP THEN "Reboot" ELSE "SoftRestart"

target == <<"t", "a", "r", "g", "e", "t">>

\* The places where /target/product/[^/]+/(.+)$ matches: a path is its
\* components, an absolute path starts with the empty component, so "/target"
\* is a component target that is not the first one.
PathMatches(path) ==
    { i \in 2..Len(path) :
        /\ i + 3 <= Len(path)
        /\ path[i] = target
        /\ path[i + 1] = product
        /\ path[i + 2] # <<>> }

\* strip_product_prefix(..).unwrap_or(""): what follows the leftmost match,
\* the empty path if there is no match.
strip_product_prefix(path) ==
    IF PathMatches(path) = {} THEN <<>>
    ELSE LET i == CHOOSE m \in PathMatches(path) : \A n \in PathMatches(path) : m <= n
         IN  SubSeq(path, i + 3, Len(path))

\* A mutant of the choice for one file: the classes decide, the file name
\* is not looked at.
file_restart_type_by_classes(device_path_, module_type) == module_type

\* The body of the loop over module.installed, for a device path that is
\* not empty.
file_restart_type(device_path_, module_type) ==
    IF should_force_reboot_on_filename(device_path_) THEN "Reboot"
    ELSE IF can_soft_restart_based_on_filename(device_path_) THEN "SoftRestart"
    ELSE module_type

\* The entries one module adds to app_classes.
module_app_classes(module) ==
    [f \in { strip_product_prefix(i) : i \in module.installed } \ { <<>> } |->
        file_restart_type(f, restart_type_for_classes(module.class))]

\* restart_type_for_all_installed_files: the modules come out of the HashMap
\* in the order given, an insert replaces the entry of an earlier module.
RECURSIVE restart_type_for_all_installed_files(_, _)
restart_type_for_all_installed_files(info, order) ==
    IF order = <<>> THEN EmptyMap
    ELSE module_app_classes(info[order[Len(order)]])
             @@ restart_type_for_all_installed_files(info, SubSeq(order, 1, Len(order) - 1))

(***************************************************************************)
(* SpecChooser: RestartChooser::new applied to a module-info of up to two  *)
(* modules.                                                                *)
(***************************************************************************)
out == <<"o", "u", "t">>
vsoc == <<"v", "s", "o", "c">>
bin == <<"b", "i", "n">>
n_sf == <<"s", "f">>
n_sf_rc == <<"s", "f", ".", "r", "c">>
n_sf_vdex == <<"s", "f", ".", "v", "d", "e", "x">>

R_sf == <<out, target, product, vsoc, system, bin, n_sf>>
R_sf_rc == <<out, target, product, vsoc, system, bin, n_sf_rc>>
R_sf_vdex == <<out, target, product, vsoc, system, bin, n_sf_vdex>>
R_abs_sf == << <<>>, out, target, product, vsoc, system, bin, n_sf>>
R_host == <<out, <<"h", "o", "s", "t">>, bin, n_sf>>
R_no_name == <<out, target, product, n_sf>>

RawPaths == { R_sf, R_sf_rc, R_sf_vdex, R_abs_sf, R_host, R_no_name }

MaxInstalled == 2

Classes == { {}, { "EXECUTABLES" }, { "ETC" }, { "SHARED_LIBRARIES", "STATIC_LIBRARIES" } }

Modules ==
    [class : Classes,
     installed : { S \in SUBSET RawPaths : Cardinality(S) \in 1..MaxInstalled }]

ModuleInfos == UNION { [N -> Modules] : N \in { {}, { "m1" }, { "m1", "m2" } } }

InitChooser ==
    /\ pc = "new_chooser"
    /\ TreesIdle
    /\ StatusIdle
    /\ UpdateIdle
    /\ installed_file_paths = <<>>
    /\ AdeviceIdle
    /\ module_info \in ModuleInfos
    /\ commands = NoCommands
    /\ WaitIdle
    /\ AuxIdle

\* RestartChooser::new
NewRestartChooser ==
    /\ pc = "new_chooser"
    /\ \E order \in Orders(DOMAIN module_info) :
          restart_chooser' = restart_type_for_all_installed_files(module_info, order)
    /\ pc' = "chooser_built"
    /\ UNCHANGED <<tree_vars, status_vars, adb_commands, should_wait, upc, sorted_cmds,
                   next_cmd, rtype, device_log, update_result, installed_file_paths,
                   adevice_vars, module_info, commands, wait_vars, aux_vars>>

NextChooser == NewRestartChooser

SpecChooser == InitChooser /\ [][NextChooser]_vars

(***************************************************************************)
(* C28: the entry of each installed file in the map of the chooser.        *)
(***************************************************************************)
\* The raw path r lies under an output root target/product/<name>/ and f is
\* what follows the root.
UnderOutputRoot(r, f) ==
    \E i \in 2..Len(r) :
        /\ i + 3 <= Len(r)
        /\ r[i] = target /\ r[i + 1] = product /\ r[i + 2] # <<>>
        /\ f = SubSeq(r, i + 3, Len(r))

\* The modules that install the device path f.
ModulesOf(f) ==
    { m \in DOMAIN module_info : \E r \in module_info[m].installed : UnderOutputRoot(r, f) }

\* C28: in the map RestartChooser builds, a device path with extension rc
\* is Reboot whatever the classes of its module; otherwise one with
\* extension art, oat or vdex is SoftRestart whatever the classes; otherwise
\* it is SoftRestart if every class of its module is in the soft-restart
\* group and Reboot if some class is outside it; the entries are those of
\* the installed paths under target/product/<name>/, an installed path that
\* is not under such a root gets no entry.
C28_ChooserEntries ==
    pc = "chooser_built" =>
        /\ \A f \in DOMAIN restart_chooser :
              /\ ModulesOf(f) # {}
              /\ IF extension(f) = <<"r", "c">> THEN restart_chooser[f] = "Reboot"
                 ELSE IF extension(f) \in { <<"a", "r", "t">>, <<"o", "a", "t">>,
                                            <<"v", "d", "e", "x">> }
                 THEN restart_chooser[f] = "SoftRestart"
                 ELSE \E m \in ModulesOf(f) :
                         restart_chooser[f] =
                             IF module_info[m].class \subseteq SOFT_RESET_GROUP
                             THEN "SoftRestart" ELSE "Reboot"
        /\ \A m \in DOMAIN module_info : \A r \in module_info[m].installed :
              \A k \in 1..Len(r) :
                  UnderOutputRoot(r, SubSeq(r, k, Len(r)))
                      => SubSeq(r, k, Len(r)) \in DOMAIN restart_chooser

\* A module of class EXECUTABLES with a binary and its rc file, next to a
\* module of class ETC with a vdex file and a host file.
C28_Witness ==
    /\ pc = "chooser_built"
    /\ DOMAIN module_info = { "m1", "m2" }
    /\ module_info["m1"] = [class |-> { "EXECUTABLES" }, installed |-> { R_sf, R_sf_rc }]
    /\ module_info["m2"] = [class |-> { "ETC" }, installed |-> { R_sf_vdex, R_host }]
    /\ restart_chooser = (<<system, bin, n_sf>> :> "SoftRestart")
                          @@ (<<system, bin, n_sf_rc>> :> "Reboot")
                          @@ (<<system, bin, n_sf_vdex>> :> "SoftRestart")

(***************************************************************************)
(* C29: get_update_commands when a tracked path is not built.              *)
(***************************************************************************)
\* tracked_set.difference(&host_set)
needs_building == tracked_set \ DOMAIN host_tree

\* aapt2 fails for a tracked apk that differs between host and device.
AaptFails ==
    \E f \in tracked_set \cap DOMAIN host_tree \cap DOMAIN device_tree :
        /\ is_metadata_diff(device_tree[f], host_tree[f])
        /\ extension(f) = ext_apk
        /\ aapt2[f] = AaptFailed

HostTreeClosed ==
    \A p \in DOMAIN host_tree :
        \A k \in 1..(Len(p) - 1) : SubSeq(p, 1, k) \in DOMAIN host_tree

\* C30: for a host tree that holds the directories above each of its
\* entries, no delete command of get_update_commands is for the device path
\* of an upsert command of the same result or for a directory above it.
C30_NoDeleteAboveUpsert ==
    (GotCommands /\ HostTreeClosed) =>
        \A d \in DOMAIN deletes : \A u \in DOMAIN upserts :
            /\ device_path(deletes[d]) # device_path(upserts[u])
            /\ ~IsDescendant(device_path(upserts[u]), device_path(deletes[d]))

\* An apk two levels down is pushed, the device holds the directories
\* above it, and something else is deleted.
C30_Witness ==
    /\ GotCommands
    /\ HostTreeClosed
    /\ P_apk \in DOMAIN upserts
    /\ P_a \in DOMAIN device_tree
    /\ P_sys \in DOMAIN device_tree
    /\ P_f \in DOMAIN deletes

(***************************************************************************)
(* C31: the commands for an apk that is installed on /data.                *)
(***************************************************************************)
\* C31: get_update_commands composes no command, neither an upsert nor a
\* delete, for a path whose state is ApkInstalled.
C31_NoCommandForShadowedApk ==
    GotCommands =>
        \A p \in DOMAIN status_per_file :
            status_per_file[p] = "ApkInstalled" =>
                p \notin DOMAIN upserts /\ p \notin DOMAIN deletes

(***************************************************************************)
(* C32: the upserts and the paths reported as Push.                        *)
(***************************************************************************)
PushPaths == { p \in DOMAIN status_per_file : status_per_file[p] = "Push" }

\* C32: the key set of Commands.upserts returned by get_update_commands is
\* the set of paths that collect_status_per_file classifies as Push in the
\* same call.
C32_UpsertsArePushPaths == GotCommands => DOMAIN upserts = PushPaths

\* A tracked path that is on both sides with different fingerprints is
\* reported as Push and upserted, next to a path that is not.
C32_Witness ==
    /\ GotCommands
    /\ \E p \in PushPaths :
          /\ p \in DOMAIN device_tree
          /\ p \in DOMAIN host_tree
          /\ p \in DOMAIN upserts
    /\ \E q \in DOMAIN status_per_file : q \notin PushPaths

(***************************************************************************)
(* C33: the restart that follows `exec-out stop`.                          *)
(***************************************************************************)
StoppedAt(k) ==
    /\ device_log[k].op = "run_raw_adb_command"
    /\ device_log[k].arg = "exec-out stop"
    /\ device_log[k].result = "Ok"

RestartedAt(k) ==
    /\ device_log[k].op \in { "soft_restart", "reboot" }
    /\ device_log[k].result = "Ok"

\* C33: when device::update returns success after it has run at least one
\* command, the `exec-out stop` of the preparation is followed by a soft
\* restart or a reboot.
C33_StopIsFollowedByRestart ==
    (/\ upc = "returned"
     /\ update_result.ok
     /\ Len(sent) >= 1) =>
        \A k \in DOMAIN device_log :
            StoppedAt(k) => \E j \in DOMAIN device_log : j > k /\ RestartedAt(j)

(***************************************************************************)
(* C35: a device path that several modules install.                        *)
(***************************************************************************)
\* The restart types the modules that install f give to f.
DerivedTypes(f) ==
    { file_restart_type(f, restart_type_for_classes(module_info[m].class)) :
        m \in ModulesOf(f) }

\* C35: for a device path installed by more than one module the chooser
\* records the highest-ranking of the restart types derived from those
\* modules, whatever the order in which the modules are processed.
C35_SharedPathIsMostConservative ==
    pc = "chooser_built" =>
        \A f \in DOMAIN restart_chooser :
            Cardinality(ModulesOf(f)) > 1 =>
                Rank(restart_chooser[f]) = Max({ Rank(t) : t \in DerivedTypes(f) })

(***************************************************************************)
(* C38: the time limit handed to the timeout binary.                       *)
(***************************************************************************)
\* C38: every attempt of run_process_with_retry_until_timeout is started
\* with a time limit of at least 1 second that is not greater than the time
\* left before the overall deadline.
C38_AttemptLimitWithinBounds ==
    proc_pc = "running" =>
        /\ timeout_arg >= 1
        /\ timeout_arg * TicksPerSec <= saturating_sub(timeout, elapsed)

(***************************************************************************)
(* device.rs: RealDevice::run_adb_command and run_raw_adb_command start    *)
(* adb and turn what the process gives back into a Result.                 *)
(***************************************************************************)
w_remount == <<"r", "e", "m", "o", "u", "t">>
w_reboot == <<"r", "e", "b", "o", "o", "t">>
w_serial_flag == <<"-", "s">>
serial_1 == <<"e", "m", "u">>

\* Add -s DEVICE to the adb args.
adjust_adb_args(serial, cmd) ==
    IF serial = NoSerial THEN cmd ELSE <<w_serial_flag, serial.some>> \o cmd

NotUtf8 == "not utf-8"
SpawnFailed == [error |-> "adb could not be started"]
Signal == "signal"

Output(argv, status, stdout, stderr) ==
    [argv |-> argv, status |-> status, stdout |-> stdout, stderr |-> stderr]

\* What Command::output can give for the argv: adb cannot be started, or it
\* ends with a status (0, another code, or a signal) and its two streams.
Outputs(argv) ==
    { SpawnFailed } \cup
    { Output(argv, st, so, se) :
        st \in { "0", "1", Signal }, so \in { "", "out", NotUtf8 }, se \in { "", "err", NotUtf8 } }

\* A mutant of the conversion: output on stderr makes a run with status 0
\* an error.
adb_result_of_checking_stderr(output) ==
    IF output = SpawnFailed THEN Err("Error running adb commands")
    ELSE IF output.status = "0" /\ output.stderr = ""
    THEN IF output.stdout = NotUtf8 THEN Err("FromUtf8Error") ELSE Ok(output.stdout)
    ELSE Err(<<"adb error", output.status, output.stdout, output.stderr>>)

\* The Result run_raw_adb_command makes of the output.
adb_result_of(output) ==
    IF output = SpawnFailed THEN Err("Error running adb commands")
    ELSE IF output.status = "0"
    THEN IF output.stdout = NotUtf8 THEN Err("FromUtf8Error") ELSE Ok(output.stdout)
    ELSE IF output.stderr = NotUtf8 THEN Err("Error translating stderr")
    ELSE IF output.stdout = NotUtf8 THEN Err("Error translating stdout")
    ELSE Err(<<"adb error", output.status, output.stdout, output.stderr>>)

\* run_raw_adb_command(cmd); run_adb_command(cmd) is
\* run_raw_adb_command(&cmd.args()).
RunRawAdbCommand ==
    /\ adb_pc = "call"
    /\ \E output \in Outputs(adjust_adb_args(android_serial, adb_cmd)) :
          /\ adb_output' = output
          /\ adb_result' = adb_result_of(output)
    /\ adb_pc' = "returned"
    /\ UNCHANGED <<pc, tree_vars, status_vars, update_vars, installed_file_paths,
                   adevice_vars, module_info, commands, wait_vars, android_serial,
                   adb_cmd, tracking_vars, progress_vars>>

(***************************************************************************)
(* SpecAdb: one call of run_adb_command or run_raw_adb_command on a        *)
(* RealDevice.                                                             *)
(***************************************************************************)
AdbCmds == { args(c) : c \in AllCommands } \cup { <<w_remount>>, <<w_reboot>> }

InitAdb ==
    /\ pc = "adb"
    /\ TreesIdle
    /\ StatusIdle
    /\ UpdateIdle
    /\ installed_file_paths = <<>>
    /\ AdeviceIdle
    /\ module_info = {}
    /\ commands = NoCommands
    /\ WaitIdle
    /\ android_serial \in { NoSerial, SomeSerial(serial_1) }
    /\ adb_pc = "call"
    /\ adb_cmd \in AdbCmds
    /\ adb_output = NoOutput
    /\ adb_result = NotCalled
    /\ TrackingIdle
    /\ ProgressIdle

NextAdb == RunRawAdbCommand

SpecAdb == InitAdb /\ [][NextAdb]_vars

AdbRan == adb_pc = "returned" /\ adb_output # SpawnFailed

RECURSIVE insert_name(_, _)
insert_name(x, s) ==
    IF s = <<>> THEN <<x>>
    ELSE IF StrLess(x, Head(s)) THEN <<x>> \o s
    ELSE <<Head(s)>> \o insert_name(x, Tail(s))

RECURSIVE sort(_)
sort(s) == IF s = <<>> THEN <<>> ELSE insert_name(Head(s), sort(Tail(s)))

\* Vec::dedup: of consecutive equal elements the first is kept.
RECURSIVE dedup(_)
dedup(s) ==
    IF Len(s) <= 1 THEN s
    ELSE IF s[1] = s[2] THEN dedup(Tail(s))
    ELSE <<s[1]>> \o dedup(Tail(s))

\* self.modules.retain(|m| !module_names.contains(m))
retain_not_in(modules, module_names) ==
    LET keep(m) == m \notin Range(module_names) IN SelectSeq(modules, keep)

\* A mutant of the list track builds: the new names are appended and the
\* list is deduplicated without being sorted first.
tracked_modules_unsorted(modules, module_names) == dedup(modules \o module_names)

\* The list track builds: extend_from_slice, sort, dedup.
tracked_modules(modules, module_names) == dedup(sort(modules \o module_names))

\* serde_json::to_writer_pretty(&mut file, &self): base and modules are
\* written, home_dir is skipped.
to_json(c) == [exists |-> TRUE, base |-> c.base, modules |-> c.modules]

\* Config::load_or_default
load_or_default ==
    IF config_file = NoFile THEN DefaultConfig
    ELSE Config(config_file.base, config_file.modules)

SaveResults == { "Ok", "Creating file" }

\* Config::save: the file is created and written, or cannot be created.
save(c, r) ==
    /\ config_file' = IF r = "Ok" THEN to_json(c) ELSE config_file
    /\ config_result' = ResultOf(r)

\* Config::clear_cache: a cache that is already gone is not an error.
clear_cache == cache_file' = NoFile

MaxClock == 4

\* Every call takes time.
Tick == clock < MaxClock /\ clock' = clock + 1

m_a == <<"a">>
m_b == <<"b">>
ModuleNames == { m_a, m_b }
NameLists == { <<m_a>>, <<m_b>>, <<m_b, m_a>>, <<m_a, m_a>> }

Noted(op, module_names) ==
    [n \in DOMAIN last_op \cup Range(module_names) |->
        IF n \in Range(module_names) THEN op ELSE last_op[n]]

\* Config::track
Track(module_names) ==
    /\ pc = "tracking"
    /\ Tick
    /\ config' = Config(config.base, tracked_modules(config.modules, module_names))
    /\ clear_cache
    /\ \E r \in SaveResults : save(config', r)
    /\ last_op' = Noted("track", module_names)
    /\ UNCHANGED <<pc, tree_vars, status_vars, update_vars, installed_file_paths,
                   adevice_vars, module_info, commands, wait_vars, adb_vars, ninja_file,
                   tracked_files_result, progress_vars>>

\* Config::untrack
Untrack(module_names) ==
    /\ pc = "tracking"
    /\ Tick
    /\ config' = Config(config.base, retain_not_in(config.modules, module_names))
    /\ clear_cache
    /\ \E r \in SaveResults : save(config', r)
    /\ last_op' = Noted("untrack", module_names)
    /\ UNCHANGED <<pc, tree_vars, status_vars, update_vars, installed_file_paths,
                   adevice_vars, module_info, commands, wait_vars, adb_vars, ninja_file,
                   tracked_files_result, progress_vars>>

Bases == { "droid", "sdk" }

\* A mutant of trackbase: the cache of the ninja deps is kept.
TrackBaseKeepingCache(base) ==
    /\ pc = "tracking"
    /\ Tick
    /\ config' = Config(base, config.modules)
    /\ \E r \in SaveResults : save(config', r)
    /\ UNCHANGED <<pc, tree_vars, status_vars, update_vars, installed_file_paths,
                   adevice_vars, module_info, commands, wait_vars, adb_vars, ninja_file,
                   cache_file, tracked_files_result, last_op, progress_vars>>

\* Config::trackbase
TrackBase(base) ==
    /\ pc = "tracking"
    /\ Tick
    /\ config' = Config(base, config.modules)
    /\ clear_cache
    /\ \E r \in SaveResults : save(config', r)
    /\ UNCHANGED <<pc, tree_vars, status_vars, update_vars, installed_file_paths,
                   adevice_vars, module_info, commands, wait_vars, adb_vars, ninja_file,
                   tracked_files_result, last_op, progress_vars>>

vendor == <<"v", "e", "n", "d", "o", "r">>
R_vendor == <<out, target, product, vsoc, vendor, n_sf>>

\* tracking::strip_product_prefix: ^[^/]+/target/product/[^/]+/(.+)$, the
\* empty path when the line does not match.
ninja_strip_product_prefix(r) ==
    IF /\ Len(r) >= 5
       /\ r[1] # <<>> /\ r[2] = target /\ r[3] = product /\ r[4] # <<>>
    THEN SubSeq(r, 5, Len(r))
    ELSE <<>>

\* tracking::tracked_files: the lines of the ninja output that lie under
\* the product out directory, stripped.
ninja_tracked_files(stdout) ==
    LET stripped == [i \in DOMAIN stdout |-> ninja_strip_product_prefix(stdout[i])]
        matched(p) == p # <<>>
    IN  SelectSeq(stripped, matched)

\* filter_partitions: the deps that start with one of the partitions.
filter_partitions(ninja_deps, parts) ==
    LET kept(dep) == \E i \in DOMAIN parts : starts_with(dep, parts[i])
    IN  SelectSeq(ninja_deps, kept)

\* data.join("\n") followed by split('\n'): the text of an empty list is
\* empty and reads back as one empty line.
cache_text(deps) == IF deps = <<>> THEN << <<>> >> ELSE deps

Graphs == { 1, 2 }

\* What `ninja -t inputs -i <target>` prints for one target of a build
\* graph.
TargetInputs(graph, t) ==
    CASE t = "droid" -> IF graph = 1 THEN <<R_sf>> ELSE <<R_sf, R_vendor>>
      [] t = "sdk" -> <<R_host>>
      [] t = m_a -> <<R_vendor, R_abs_sf>>
      [] OTHER -> IF graph = 1 THEN <<>> ELSE <<R_sf_rc>>

RECURSIVE ModuleInputs(_, _)
ModuleInputs(graph, modules) ==
    IF modules = <<>> THEN <<>>
    ELSE TargetInputs(graph, Head(modules)) \o ModuleInputs(graph, Tail(modules))

\* The stdout of ninja for the args of the config; without the ninja file
\* ninja fails and prints nothing on stdout.
ninja_stdout(c, file) ==
    IF file = NoFile THEN <<>>
    ELSE TargetInputs(file.graph, c.base) \o ModuleInputs(file.graph, c.modules)

\* A mutant of read_cache: the cache is used whatever its age.
read_cache_of_any_age(cache, ninja) ==
    IF cache = NoFile \/ ninja = NoFile THEN Err("not found") ELSE Ok(cache.lines)

\* Config::read_cache
read_cache(cache, ninja) ==
    IF cache = NoFile \/ ninja = NoFile THEN Err("not found")
    ELSE IF cache.mtime < ninja.mtime THEN Err("cache is stale")
    ELSE Ok(cache.lines)

Served(value, from, parts) ==
    [ok |-> TRUE, value |-> value, served |-> from, partitions |-> parts]

PartitionLists == { <<P_sys>>, <<P_sys, <<vendor>>>>, << <<vendor>> >> }

\* Config::tracked_files
TrackedFiles(parts) ==
    /\ pc = "tracking"
    /\ Tick
    /\ LET cache == read_cache(cache_file, ninja_file)
       IN  IF cache.ok
           THEN /\ tracked_files_result' =
                       Served(filter_partitions(cache.value, parts), "cache", parts)
                /\ UNCHANGED cache_file
           ELSE \E ran \in BOOLEAN :
                   IF ran
                   THEN LET unfiltered ==
                                ninja_tracked_files(ninja_stdout(config, ninja_file))
                        IN  /\ cache_file' = [exists |-> TRUE, mtime |-> clock',
                                              lines |-> cache_text(unfiltered)]
                            /\ tracked_files_result' =
                                   Served(filter_partitions(unfiltered, parts), "ninja", parts)
                   ELSE /\ tracked_files_result' = Err("Running ninja to get base files")
                        /\ UNCHANGED cache_file
    /\ UNCHANGED <<pc, tree_vars, status_vars, update_vars, installed_file_paths,
                   adevice_vars, module_info, commands, wait_vars, adb_vars, config,
                   config_file, ninja_file, config_result, last_op, progress_vars>>

\* A build writes the combined ninja file again.
Build ==
    /\ pc = "tracking"
    /\ Tick
    /\ \E g \in Graphs : ninja_file' = [exists |-> TRUE, mtime |-> clock', graph |-> g]
    /\ UNCHANGED <<pc, tree_vars, status_vars, update_vars, installed_file_paths,
                   adevice_vars, module_info, commands, wait_vars, adb_vars, config,
                   config_file, cache_file, config_result, tracked_files_result, last_op,
                   progress_vars>>

(***************************************************************************)
(* SpecTracking: track, untrack, trackbase, tracked_files and builds in    *)
(* any order, from the default config.                                     *)
(***************************************************************************)
InitTracking ==
    /\ pc = "tracking"
    /\ TreesIdle
    /\ StatusIdle
    /\ UpdateIdle
    /\ installed_file_paths = <<>>
    /\ AdeviceIdle
    /\ module_info = {}
    /\ commands = NoCommands
    /\ WaitIdle
    /\ AdbIdle
    /\ config_file = NoFile
    /\ config = load_or_default
    /\ cache_file = NoFile
    /\ ninja_file \in { NoFile, [exists |-> TRUE, mtime |-> 0, graph |-> 1] }
    /\ clock = 0
    /\ config_result = NotCalled
    /\ tracked_files_result = NotCalled
    /\ last_op = <<>>
    /\ ProgressIdle

NextTracking ==
    \/ \E module_names \in NameLists : Track(module_names)
    \/ \E module_names \in NameLists : Untrack(module_names)
    \/ \E base \in Bases : TrackBase(base)
    \/ \E parts \in PartitionLists : TrackedFiles(parts)
    \/ Build

SpecTracking == InitTracking /\ [][NextTracking]_vars

(***************************************************************************)
(* C36: when tracked_files uses the cache.                                 *)
(***************************************************************************)
\* The cache file exists and is not older than the ninja file.
CacheUsable ==
    /\ cache_file # NoFile
    /\ ninja_file # NoFile
    /\ ~(cache_file.mtime < ninja_file.mtime)

\* The list a run of ninja gives for the config and the ninja file.
Recomputed == ninja_tracked_files(ninja_stdout(config, ninja_file))

\* A usable cache filters to what a recomputation filters to.
CacheServesRecomputed ==
    CacheUsable =>
        \A parts \in PartitionLists :
            filter_partitions(cache_file.lines, parts) = filter_partitions(Recomputed, parts)

\* What a call of tracked_files that returns a list has done.
TrackedFilesServed(parts) ==
    /\ tracked_files_result'.served = "cache" <=> CacheUsable
    /\ tracked_files_result'.served = "cache" => cache_file' = cache_file
    /\ tracked_files_result'.served = "ninja" =>
          /\ cache_file' # NoFile
          /\ cache_file'.mtime = clock'
          /\ filter_partitions(cache_file'.lines, parts) = tracked_files_result'.value
    /\ tracked_files_result'.value = filter_partitions(Recomputed, parts)

\* A track, untrack or trackbase removes the cache.
CacheCleared ==
    (config_result' # config_result \/ config' # config) => cache_file' = NoFile

SortedNoDuplicates(s) == \A i \in 1..(Len(s) - 1) : StrLess(s[i], s[i + 1])

ModulesInvariant ==
    /\ SortedNoDuplicates(config.modules)
    /\ \A n \in ModuleNames :
          n \in Range(config.modules) <=> (n \in DOMAIN last_op /\ last_op[n] = "track")
    /\ config_result.ok => load_or_default = config

\* Tracking names that are all tracked already leaves the list as it is.
TrackIsIdempotent ==
    \A module_names \in NameLists :
        (Track(module_names) /\ Range(module_names) \subseteq Range(config.modules))
            => config'.modules = config.modules

MaxStarts == 2

Messages == { "Preparing to update files", "Updating files", "Waiting for device" }

ProgressUnchanged ==
    UNCHANGED <<pc, tree_vars, status_vars, update_vars, installed_file_paths, adevice_vars,
                module_info, commands, wait_vars, adb_vars, tracking_vars>>

\* progress::start: update(message), then PROGRESS.start() spawns a thread.
ProgressStart ==
    /\ main_pc = "start"
    /\ Len(printers) < MaxStarts
    /\ \E msg \in Messages : message' = msg
    /\ printers' = Append(printers, "check")
    /\ main_pc' = "stop"
    /\ UNCHANGED is_complete
    /\ ProgressUnchanged

\* progress::update
ProgressUpdate ==
    /\ main_pc = "stop"
    /\ \E msg \in Messages \ { message } : message' = msg
    /\ UNCHANGED <<is_complete, printers, main_pc>>
    /\ ProgressUnchanged

\* progress::stop; the caller goes on to the next start, or to its end.
ProgressStop ==
    /\ main_pc = "stop"
    /\ is_complete' = TRUE
    /\ \/ Len(printers) < MaxStarts /\ main_pc' = "start"
       \/ main_pc' = "done"
    /\ UNCHANGED <<message, printers>>
    /\ ProgressUnchanged

\* while !*is_complete.lock().unwrap()
PrinterCheck(i) ==
    /\ i \in DOMAIN printers
    /\ printers[i] = "check"
    /\ printers' = [printers EXCEPT ![i] = IF is_complete THEN "reset" ELSE "print"]
    /\ UNCHANGED <<is_complete, message, main_pc>>
    /\ ProgressUnchanged

\* The body of the loop: the message is printed, the thread sleeps 100 ms.
PrinterPrint(i) ==
    /\ i \in DOMAIN printers
    /\ printers[i] = "print"
    /\ printers' = [printers EXCEPT ![i] = "check"]
    /\ UNCHANGED <<is_complete, message, main_pc>>
    /\ ProgressUnchanged

\* After the loop: *complete = false, and the thread ends.
PrinterReset(i) ==
    /\ i \in DOMAIN printers
    /\ printers[i] = "reset"
    /\ is_complete' = FALSE
    /\ printers' = [printers EXCEPT ![i] = "ended"]
    /\ UNCHANGED <<message, main_pc>>
    /\ ProgressUnchanged

Printer(i) == PrinterCheck(i) \/ PrinterPrint(i) \/ PrinterReset(i)

(***************************************************************************)
(* SpecProgress: a caller that pairs every start with a stop, and the      *)
(* printer threads, in any interleaving.                                   *)
(***************************************************************************)
InitProgress ==
    /\ pc = "progress"
    /\ TreesIdle
    /\ StatusIdle
    /\ UpdateIdle
    /\ installed_file_paths = <<>>
    /\ AdeviceIdle
    /\ module_info = {}
    /\ commands = NoCommands
    /\ WaitIdle
    /\ AdbIdle
    /\ TrackingIdle
    /\ is_complete = FALSE
    /\ message = ""
    /\ printers = <<>>
    /\ main_pc = "start"

NextProgress ==
    \/ ProgressStart
    \/ ProgressUpdate
    \/ ProgressStop
    \/ \E i \in 1..MaxStarts : PrinterCheck(i)
    \/ \E i \in 1..MaxStarts : PrinterPrint(i)
    \/ \E i \in 1..MaxStarts : PrinterReset(i)

SpecProgress == InitProgress /\ [][NextProgress]_vars

\* Every thread that can take a step takes one, and the caller goes on to
\* its end.
SpecProgressFair ==
    /\ SpecProgress
    /\ WF_vars(ProgressStart)
    /\ WF_vars(ProgressStop)
    /\ \A i \in 1..MaxStarts : WF_vars(Printer(i))

AllPrintersEnded == \A i \in DOMAIN printers : printers[i] = "ended"

\* C39: when every start is followed by a stop, every printer thread
\* that start spawned leaves its loop after the last stop.
C39_PrintersLeaveTheLoop == (main_pc = "done") ~> AllPrintersEnded

=============================================================================
